---- MODULE Spec2Model ----
(***************************************************************************)
(* A model of the ICER puzzle core (TypeScript sources): GameWorld, the    *)
(* entity classes, PhysicsEngine, PushSystem, IceBlockSystem,              *)
(* GameRulesSystem, LevelManager and the per-frame pipeline of Game.       *)
(*                                                                         *)
(* Time is counted in ticks; one fixed physics step is TicksPerStep ticks  *)
(* and one second is STEPS_PER_SECOND fixed steps.  Map keys "x,y" are     *)
(* modelled as the pair <<x, y>>; a JavaScript Map is a sequence of        *)
(* [key, obj] entries in insertion order.  Objects are records held in     *)
(* the sequence ents; an object reference is its index, 0 is null.         *)
(***************************************************************************)
EXTENDS Integers, Sequences, FiniteSets, TLC

VARIABLES
  width,            \* GameWorld.width
  height,           \* GameWorld.height
  grid,             \* GameWorld.grid: cell -> object reference or 0
  objects,          \* GameWorld.objects: Map "x,y" -> object
  ents,             \* the heap of GameObject instances
  activeIceBlocks,  \* IceBlockSystem.activeIceBlocks: Map "x,y" -> IceBlock
  pushRequests,     \* PushSystem.pushRequests
  accumulatedTime,  \* PhysicsEngine.accumulatedTime
  pendingTimers,    \* objects with a pending setTimeout of the PushSystem
  gameState,        \* GameStateManager's current state
  player,           \* Game.player
  levelPlayer,      \* LevelManager.player
  loop,             \* Game.isRunning, Game.lastTime and the frame callbacks
  level,            \* LevelManager.currentLevel
  lastOp,           \* history: the last call and its result
  clock             \* history: a count of calls, steps or ticks

vars == <<width, height, grid, objects, ents, activeIceBlocks, pushRequests,
          accumulatedTime, pendingTimers, gameState, player, levelPlayer,
          loop, level, lastOp, clock>>

----------------------------------------------------------------------------
(* Bounds of the model *)

TicksPerStep == 2
WorldMaxOps == 4

(* Program constants *)

STEPS_PER_SECOND == 60
ICE_MELT_SECONDS == 3
POT_HEAT_SECONDS == 2
PORTAL_COOLDOWN_SECONDS == 1
MAX_PUSH_WEIGHT == 5
STONE_WEIGHT == 3
MAX_SAFE_INTEGER == 2147483647

FIXED_TIMESTEP == TicksPerStep
TicksPerSecond == STEPS_PER_SECOND * TicksPerStep
ICE_MELT_TIME == ICE_MELT_SECONDS * TicksPerSecond
POT_HEAT_TIME == POT_HEAT_SECONDS * TicksPerSecond
PORTAL_COOLDOWN == PORTAL_COOLDOWN_SECONDS * TicksPerSecond

----------------------------------------------------------------------------
(* Generic helpers *)

Abs(n) == IF n < 0 THEN -n ELSE n

\* F applied to the value of v, which is worked out once.
With(v, F(_)) == CHOOSE r \in {F(x) : x \in {v}} : TRUE

\* The two halves of a list; a loop over a list is the loop over its first
\* half followed by the loop over its second half.
FirstHalf(seq) == SubSeq(seq, 1, Len(seq) \div 2)
SecondHalf(seq) == SubSeq(seq, Len(seq) \div 2 + 1, Len(seq))

RECURSIVE RemoveKey(_, _)
RemoveKey(map, key) ==
  IF map = <<>> THEN <<>>
  ELSE IF Head(map).key = key THEN RemoveKey(Tail(map), key)
       ELSE <<Head(map)>> \o RemoveKey(Tail(map), key)

HasKey(map, key) == \E i \in DOMAIN map : map[i].key = key

MapGet(map, key) ==
  IF HasKey(map, key)
  THEN map[CHOOSE i \in DOMAIN map : map[i].key = key].obj
  ELSE 0

\* Map.set: an existing key keeps its place, a new key is appended.
MapSet(map, key, obj) ==
  IF HasKey(map, key)
  THEN [i \in DOMAIN map |->
          IF map[i].key = key THEN [key |-> key, obj |-> obj] ELSE map[i]]
  ELSE Append(map, [key |-> key, obj |-> obj])

MapValues(map) == [i \in DOMAIN map |-> map[i].obj]

----------------------------------------------------------------------------
(* Entities: GameObject and its subclasses *)

GameObject(type, x, y) ==
  [type |-> type, gridX |-> x, gridY |-> y, isActive |-> TRUE,
   solid |-> TRUE, pushable |-> FALSE, fragile |-> FALSE,
   supports_weight |-> TRUE, weight |-> 1, push_distance |-> 1,
   sliding |-> FALSE, just_pushed |-> FALSE,
   is_cold |-> FALSE, is_hot |-> FALSE,
   isCold |-> FALSE, isHeating |-> FALSE, heatTimer |-> 0,
   isMelting |-> FALSE, meltTimer |-> 0,
   pairedPortal |-> 0, cooldown |-> 0, portal_id |-> <<>>, portal_group |-> "",
   jumpCooldown |-> 0, iceCreateCooldown |-> 0,
   destroyed |-> 0]

Player(x, y) == GameObject("player", x, y)

Wall(x, y) ==
  [GameObject("wall", x, y) EXCEPT !.weight = MAX_SAFE_INTEGER]

IceBlock(x, y) ==
  [GameObject("ice_block", x, y) EXCEPT !.pushable = TRUE, !.fragile = TRUE]

Stone(x, y) ==
  [GameObject("stone", x, y) EXCEPT !.pushable = TRUE, !.weight = 3]

Flame(x, y) ==
  [GameObject("flame", x, y) EXCEPT !.solid = FALSE, !.fragile = TRUE,
                                    !.supports_weight = FALSE, !.weight = 0]

Pot(x, y, cold) ==
  [GameObject("pot", x, y) EXCEPT !.pushable = TRUE, !.weight = 2,
                                  !.isCold = cold, !.is_cold = cold,
                                  !.is_hot = ~cold]

Portal(x, y, portalId) ==
  [GameObject("portal", x, y) EXCEPT !.solid = FALSE,
                                     !.supports_weight = FALSE, !.weight = 0,
                                     !.portal_id = portalId]

isSolid(e) == e.solid
isPushable(e) == e.pushable
isFragile(e) == e.fragile
canSupportWeight(e) == e.supports_weight
getPushDistance(e) == e.push_distance

\* GameObject.getWeight reads the property bag; Stone overrides it.
getWeight(e) == IF e.type = "stone" THEN STONE_WEIGHT ELSE e.weight

\* GameObject.setPosition
setPosition(es, o, x, y) == [es EXCEPT ![o].gridX = x, ![o].gridY = y]

\* GameObject.destroy / onDestroy: only a fragile object becomes inactive.
destroy(es, o) ==
  IF isFragile(es[o])
  THEN [es EXCEPT ![o].isActive = FALSE, ![o].destroyed = @ + 1]
  ELSE es

----------------------------------------------------------------------------
(* GameWorld: a state s is the record of all the program's fields *)

Cells(w, h) == (0 .. w - 1) \X (0 .. h - 1)

EmptyGrid(w, h) == [c \in Cells(w, h) |-> 0]

isOutOfBounds(s, x, y) == x < 0 \/ x >= s.width \/ y < 0 \/ y >= s.height

getObjectAt(s, x, y) == IF isOutOfBounds(s, x, y) THEN 0 ELSE s.grid[<<x, y>>]

\* The value addObject returns.
addObjectOk(s, x, y) == ~isOutOfBounds(s, x, y) /\ s.grid[<<x, y>>] = 0

addObject(s, o, x, y) ==
  IF addObjectOk(s, x, y)
  THEN [s EXCEPT !.ents = setPosition(@, o, x, y),
                 !.grid[<<x, y>>] = o,
                 !.objects = MapSet(@, <<x, y>>, o)]
  ELSE s

\* Mutant: the cell is cleared but the index entry stays.
removeObject_KeepKey(s, x, y) ==
  IF isOutOfBounds(s, x, y) THEN s
  ELSE [s EXCEPT !.grid[<<x, y>>] = 0]

removeObject(s, x, y) ==
  IF isOutOfBounds(s, x, y) THEN s
  ELSE IF s.grid[<<x, y>>] # 0
       THEN [s EXCEPT !.grid[<<x, y>>] = 0,
                      !.objects = RemoveKey(@, <<x, y>>)]
       ELSE s

\* Mutant: the destination is not checked for an occupant.
moveObjectOk_NoTargetCheck(s, fromX, fromY, toX, toY) ==
  /\ ~isOutOfBounds(s, fromX, fromY)
  /\ ~isOutOfBounds(s, toX, toY)
  /\ s.grid[<<fromX, fromY>>] # 0

\* The value moveObject returns.
moveObjectOk(s, fromX, fromY, toX, toY) ==
  /\ ~isOutOfBounds(s, fromX, fromY)
  /\ ~isOutOfBounds(s, toX, toY)
  /\ s.grid[<<fromX, fromY>>] # 0
  /\ s.grid[<<toX, toY>>] = 0

moveObject(s, fromX, fromY, toX, toY) ==
  IF moveObjectOk(s, fromX, fromY, toX, toY)
  THEN LET o == s.grid[<<fromX, fromY>>]
       IN [s EXCEPT !.grid = [@ EXCEPT ![<<fromX, fromY>>] = 0,
                                       ![<<toX, toY>>] = o],
                    !.objects = MapSet(RemoveKey(@, <<fromX, fromY>>),
                                       <<toX, toY>>, o),
                    !.ents = setPosition(@, o, toX, toY)]
  ELSE s

getAllObjects(s) == MapValues(s.objects)

getObjectsOfType(s, type) ==
  SelectSeq(MapValues(s.objects), LAMBDA o : s.ents[o].type = type)

countObjectsOfType(s, type) == Len(getObjectsOfType(s, type))

clear(s) ==
  [s EXCEPT !.grid = EmptyGrid(s.width, s.height), !.objects = <<>>]

\* Mutant: the block melts only once the timer exceeds the duration.
IceBlockUpdate_Late(e, dt) ==
  IF e.isMelting
  THEN LET t == e.meltTimer + dt
       IN IF t > ICE_MELT_TIME /\ isFragile(e)
          THEN [e EXCEPT !.meltTimer = t, !.isActive = FALSE,
                         !.destroyed = @ + 1]
          ELSE [e EXCEPT !.meltTimer = t]
  ELSE e

\* update(dt) of one object, by class.  Flame.update only animates.
IceBlockUpdate(e, dt) ==
  IF e.isMelting
  THEN LET t == e.meltTimer + dt
       IN IF t >= ICE_MELT_TIME /\ isFragile(e)
          THEN [e EXCEPT !.meltTimer = t, !.isActive = FALSE,
                         !.destroyed = @ + 1]
          ELSE [e EXCEPT !.meltTimer = t]
  ELSE e

\* Mutant: the pot is hot as soon as it is updated while heating.
PotUpdate_AtOnce(e, dt) ==
  IF e.isHeating
  THEN [e EXCEPT !.heatTimer = @ + dt, !.isCold = FALSE, !.is_cold = FALSE,
                 !.is_hot = TRUE, !.isHeating = FALSE]
  ELSE e

PotUpdate(e, dt) ==
  IF e.isHeating
  THEN LET t == e.heatTimer + dt
       IN IF t >= POT_HEAT_TIME
          THEN [e EXCEPT !.heatTimer = t, !.isCold = FALSE, !.is_cold = FALSE,
                         !.is_hot = TRUE, !.isHeating = FALSE]
          ELSE [e EXCEPT !.heatTimer = t]
  ELSE e

PortalUpdate(e, dt) ==
  IF e.cooldown > 0 THEN [e EXCEPT !.cooldown = @ - dt] ELSE e

PlayerUpdate(e, dt) ==
  [e EXCEPT !.jumpCooldown = IF @ > 0 THEN @ - dt ELSE @,
            !.iceCreateCooldown = IF @ > 0 THEN @ - dt ELSE @]

objectUpdate(e, dt) ==
  CASE e.type = "ice_block" -> IceBlockUpdate(e, dt)
    [] e.type = "pot" -> PotUpdate(e, dt)
    [] e.type = "portal" -> PortalUpdate(e, dt)
    [] e.type = "player" -> PlayerUpdate(e, dt)
    [] OTHER -> e

\* GameWorld.removeDestroyedObjects: clears the cell named by the index key.
RECURSIVE clearInactiveCells(_, _, _)
clearInactiveCells(g, es, map) ==
  IF map = <<>> THEN g
  ELSE With(IF es[Head(map).obj].isActive THEN g
            ELSE [g EXCEPT ![Head(map).key] = 0],
            LAMBDA g1 : clearInactiveCells(g1, es, Tail(map)))

\* Mutant: the purge drops the index entries but leaves the cells.
removeDestroyedObjects_KeepCell(s) ==
  [s EXCEPT !.objects = SelectSeq(@, LAMBDA en : s.ents[en.obj].isActive)]

removeDestroyedObjects(s) ==
  [s EXCEPT !.grid = clearInactiveCells(@, s.ents, s.objects),
            !.objects = SelectSeq(@, LAMBDA en : s.ents[en.obj].isActive)]

\* GameWorld.update: every active object of the index is updated once, in
\* index order (an update changes only the updated object), then the purge.
RECURSIVE updateEach(_, _, _)
updateEach(es, os, dt) ==
  IF os = <<>> THEN es
  ELSE With(IF es[Head(os)].isActive
            THEN [es EXCEPT ![Head(os)] = objectUpdate(@, dt)]
            ELSE es,
            LAMBDA es1 : updateEach(es1, Tail(os), dt))

worldUpdate(s, dt) ==
  removeDestroyedObjects(
    [s EXCEPT !.ents = updateEach(@, getAllObjects(s), dt)])

----------------------------------------------------------------------------
(* onCollision hooks of the entity classes; es is the heap *)

\* IceBlock.startMelting
startMelting(es, o) ==
  IF es[o].type = "ice_block"
  THEN [es EXCEPT ![o].isMelting = TRUE, ![o].meltTimer = 0]
  ELSE es

\* Pot.startHeating
startHeating(es, o) ==
  IF es[o].type = "pot"
  THEN [es EXCEPT ![o].isHeating = TRUE, ![o].heatTimer = 0]
  ELSE es

\* Pot.coolDown
\* Mutant: the pot keeps its heat.
coolDown_Keep(es, o) == es

coolDown(es, o) ==
  IF es[o].type = "pot"
  THEN [es EXCEPT ![o].isCold = TRUE, ![o].is_cold = TRUE, ![o].is_hot = FALSE]
  ELSE es

TeleportableTypes == {"player", "ice_block", "stone", "pot"}

canTeleport(e) == e.type \in TeleportableTypes

\* Portal.teleport: the object's position fields are set to the paired
\* portal's coordinates and both portals start their cooldown.
teleport(es, p, o) ==
  LET q == es[p].pairedPortal
  IN IF q = 0 THEN es
     ELSE [setPosition(es, o, es[q].gridX, es[q].gridY)
             EXCEPT ![p].cooldown = PORTAL_COOLDOWN,
                    ![q].cooldown = PORTAL_COOLDOWN]

\* Mutant: the cooldown is not looked at.
PortalOnCollision_NoCooldown(es, p, o) ==
  IF es[p].pairedPortal = 0 THEN es
  ELSE IF canTeleport(es[o]) THEN teleport(es, p, o)
  ELSE es

PortalOnCollision(es, p, o) ==
  IF es[p].pairedPortal = 0 \/ es[p].cooldown > 0 THEN es
  ELSE IF canTeleport(es[o]) THEN teleport(es, p, o)
  ELSE es

IceBlockOnCollision(es, a, b) ==
  IF es[b].type = "flame" THEN destroy(startMelting(es, a), b) ELSE es

FlameOnCollision(es, a, b) ==
  LET es1 == IF es[b].type = "ice_block" THEN destroy(es, a) ELSE es
  IN IF es1[b].type = "pot" /\ es1[b].is_cold THEN destroy(es1, a) ELSE es1

PotOnCollision(es, a, b) ==
  LET es1 == IF es[b].type = "flame" /\ es[a].isCold
             THEN destroy(startHeating(es, a), b)
             ELSE es
  IN IF es1[b].type = "ice_block" /\ ~es1[a].isCold
     THEN coolDown(destroy(es1, b), a)
     ELSE es1

StoneOnCollision(es, a, b) ==
  IF es[b].type = "flame" THEN destroy(es, b) ELSE es

\* a.onCollision(b)
onCollision(es, a, b) ==
  CASE es[a].type = "ice_block" -> IceBlockOnCollision(es, a, b)
    [] es[a].type = "flame" -> FlameOnCollision(es, a, b)
    [] es[a].type = "pot" -> PotOnCollision(es, a, b)
    [] es[a].type = "stone" -> StoneOnCollision(es, a, b)
    [] es[a].type = "portal" -> PortalOnCollision(es, a, b)
    [] OTHER -> es

----------------------------------------------------------------------------
(* PhysicsEngine *)

\* No class sets the 'static' property, so its default (false) is read.
isAffectedByGravity(e) == isSolid(e) /\ e.type # "wall"

shouldFall(s, o, belowY) ==
  /\ belowY >= 0
  /\ LET belowObject == getObjectAt(s, s.ents[o].gridX, belowY)
     IN belowObject = 0 \/ ~canSupportWeight(s.ents[belowObject])

\* Mutant: a fragile object below is crushed whatever the weights.
handleLanding_AnyWeight(s, o, targetY) ==
  LET belowY == targetY - 1
      belowObject == getObjectAt(s, s.ents[o].gridX, belowY)
  IN IF belowY >= 0 /\ belowObject # 0
     THEN LET es1 == onCollision(s.ents, o, belowObject)
              es2 == onCollision(es1, belowObject, o)
          IN [s EXCEPT !.ents =
                IF isFragile(es2[belowObject])
                THEN destroy(es2, belowObject)
                ELSE es2]
     ELSE s

handleLanding(s, o, targetY) ==
  LET belowY == targetY - 1
      belowObject == getObjectAt(s, s.ents[o].gridX, belowY)
  IN IF belowY >= 0 /\ belowObject # 0
     THEN LET es1 == onCollision(s.ents, o, belowObject)
              es2 == onCollision(es1, belowObject, o)
          IN [s EXCEPT !.ents =
                IF getWeight(es2[o]) > getWeight(es2[belowObject])
                   /\ isFragile(es2[belowObject])
                THEN destroy(es2, belowObject)
                ELSE es2]
     ELSE s

\* The move is addressed by the object's own position fields.
fallObject(s, o, targetY) ==
  LET e == s.ents[o]
  IN IF moveObjectOk(s, e.gridX, e.gridY, e.gridX, targetY)
     THEN handleLanding(moveObject(s, e.gridX, e.gridY, e.gridX, targetY),
                        o, targetY)
     ELSE s

\* Mutant: the object drops until the cell below no longer lets it fall.
RECURSIVE applyGravity_FreeFall(_, _)
applyGravity_FreeFall(s, o) ==
  LET belowY == s.ents[o].gridY - 1
  IN IF shouldFall(s, o, belowY)
        /\ moveObjectOk(s, s.ents[o].gridX, s.ents[o].gridY,
                        s.ents[o].gridX, belowY)
     THEN applyGravity_FreeFall(fallObject(s, o, belowY), o)
     ELSE s

applyGravity(s, o) ==
  LET belowY == s.ents[o].gridY - 1
  IN IF shouldFall(s, o, belowY) THEN fallObject(s, o, belowY) ELSE s

RECURSIVE gravityEach(_, _)
gravityEach(s, os) ==
  IF os = <<>> THEN s
  ELSE With(IF isAffectedByGravity(s.ents[Head(os)])
            THEN applyGravity(s, Head(os))
            ELSE s,
            LAMBDA s1 : gravityEach(s1, Tail(os)))

areColliding(e1, e2) == e1.gridX = e2.gridX /\ e1.gridY = e2.gridY

isHotPot(e) == e.type = "pot" /\ e.is_hot

isFireIceCollision(e1, e2) ==
  \/ e1.type = "flame" /\ e2.type = "ice_block"
  \/ e1.type = "ice_block" /\ e2.type = "flame"

isHotPotIceCollision(e1, e2) ==
  \/ isHotPot(e1) /\ e2.type = "ice_block"
  \/ isHotPot(e2) /\ e1.type = "ice_block"

\* The special cases left out: only the collision hooks act.
handleSpecialCollisions_Hooks(es, a, b) == es

handleSpecialCollisions(es, a, b) ==
  LET es1 == IF isFireIceCollision(es[a], es[b])
             THEN LET fire == IF es[a].type = "flame" THEN a ELSE b
                      ice == IF es[a].type = "ice_block" THEN a ELSE b
                  IN destroy(destroy(es, ice), fire)
             ELSE es
  IN IF isHotPotIceCollision(es1[a], es1[b])
     THEN LET hotPot == IF isHotPot(es1[a]) THEN a ELSE b
              ice == IF es1[a].type = "ice_block" THEN a ELSE b
          IN coolDown(destroy(es1, ice), hotPot)
     ELSE es1

resolveCollision(es, a, b) ==
  handleSpecialCollisions(onCollision(onCollision(es, a, b), b, a), a, b)

\* The pairs (i, j), i < j, of a list of n objects in the order of the two
\* nested loops.
RECURSIVE PairsFrom(_, _, _)
PairsFrom(i, j, n) ==
  IF i >= n THEN <<>>
  ELSE IF j > n THEN PairsFrom(i + 1, i + 2, n)
  ELSE <<<<i, j>>>> \o PairsFrom(i, j + 1, n)

\* The body of the inner loop for the pair p of positions in the list.
resolvePair(es, os, p) ==
  LET a == os[p[1]]
      b == os[p[2]]
  IN IF areColliding(es[a], es[b]) THEN resolveCollision(es, a, b) ELSE es

RECURSIVE resolvePairs(_, _, _)
resolvePairs(es, os, ps) ==
  IF ps = <<>> THEN es
  ELSE IF Len(ps) = 1 THEN resolvePair(es, os, ps[1])
  ELSE With(resolvePairs(es, os, FirstHalf(ps)),
            LAMBDA es1 : resolvePairs(es1, os, SecondHalf(ps)))

resolveCollisions(s, os) ==
  [s EXCEPT !.ents = resolvePairs(@, os, PairsFrom(1, 2, Len(os)))]

\* One fixed step: gravity over a snapshot of the index, then collisions
\* over the same snapshot.
fixedUpdate(s) ==
  LET os == getAllObjects(s)
  IN With(gravityEach(s, os), LAMBDA s1 : resolveCollisions(s1, os))

RECURSIVE drainSteps(_)
drainSteps(s) ==
  IF s.acc >= FIXED_TIMESTEP
  THEN With([fixedUpdate(s) EXCEPT !.acc = @ - FIXED_TIMESTEP],
            LAMBDA s1 : drainSteps(s1))
  ELSE s

SPIRAL_STEPS == 10

\* PhysicsEngine.update
physicsUpdate(s, dt) ==
  LET s1 == drainSteps([s EXCEPT !.acc = @ + dt])
  IN IF s1.acc > FIXED_TIMESTEP * SPIRAL_STEPS THEN [s1 EXCEPT !.acc = 0]
     ELSE s1

----------------------------------------------------------------------------
(* IceBlockSystem; s.ice is activeIceBlocks *)

ICE_SYSTEM_WIDTH == 20
ICE_SYSTEM_HEIGHT == 15

\* The bounds test of createIceBlock, against the literal 20 x 15.
createIceBlockOk(x, y) ==
  ~(x < 0 \/ x >= ICE_SYSTEM_WIDTH \/ y < 0 \/ y >= ICE_SYSTEM_HEIGHT)

\* createIceBlock: a new IceBlock on the heap, registered under its key.
createIceBlock(s, x, y) ==
  IF createIceBlockOk(x, y)
  THEN [s EXCEPT !.ents = Append(@, IceBlock(x, y)),
                 !.ice = MapSet(@, <<x, y>>, Len(s.ents) + 1)]
  ELSE s

isNearFlame(s, o) ==
  LET e == s.ents[o]
  IN \E pos \in {<<e.gridX - 1, e.gridY>>, <<e.gridX + 1, e.gridY>>,
                 <<e.gridX, e.gridY + 1>>, <<e.gridX, e.gridY - 1>>} :
       /\ getObjectAt(s, pos[1], pos[2]) # 0
       /\ s.ents[getObjectAt(s, pos[1], pos[2])].type = "flame"

isOnHotPot(s, o) ==
  LET belowObject == getObjectAt(s, s.ents[o].gridX, s.ents[o].gridY - 1)
  IN /\ belowObject # 0
     /\ s.ents[belowObject].type = "pot"
     /\ s.ents[belowObject].is_hot

RECURSIVE meltEach(_, _)
meltEach(s, os) ==
  IF os = <<>> THEN s
  ELSE LET o == Head(os)
           s1 == IF s.ents[o].isActive /\ isNearFlame(s, o)
                 THEN [s EXCEPT !.ents = startMelting(@, o)]
                 ELSE s
       IN With(IF s1.ents[o].isActive /\ isOnHotPot(s1, o)
               THEN [s1 EXCEPT !.ents = startMelting(@, o)]
               ELSE s1,
               LAMBDA s2 : meltEach(s2, Tail(os)))

checkMeltingConditions(s) == meltEach(s, MapValues(s.ice))

\* The first loop of updateAllIceBlocks over the entries of the map: a
\* block that its update destroys is removed from the World at its own
\* coordinates and from the map under the entry's key.
RECURSIVE iceUpdateEach(_, _, _)
iceUpdateEach(s, entries, dt) ==
  IF entries = <<>> THEN s
  ELSE LET en == Head(entries)
           o == en.obj
       IN With(IF s.ents[o].isActive
               THEN LET s1 == [s EXCEPT !.ents[o] = objectUpdate(@, dt)]
                    IN IF ~s1.ents[o].isActive
                       THEN [removeObject(s1, s1.ents[o].gridX,
                                          s1.ents[o].gridY)
                               EXCEPT !.ice = RemoveKey(@, en.key)]
                       ELSE s1
               ELSE s,
               LAMBDA s2 : iceUpdateEach(s2, Tail(entries), dt))

updateAllIceBlocks(s, dt) ==
  checkMeltingConditions(iceUpdateEach(s, s.ice, dt))

----------------------------------------------------------------------------
(* The state as a record, and its installation into the variables *)

State ==
  [width |-> width, height |-> height, grid |-> grid, objects |-> objects,
   ents |-> ents, ice |-> activeIceBlocks, push |-> pushRequests,
   acc |-> accumulatedTime, timers |-> pendingTimers, gstate |-> gameState,
   player |-> player, levelPlayer |-> levelPlayer, loop |-> loop,
   level |-> level]

Install(s) ==
  \E n \in {s} :
    /\ width' = n.width
    /\ height' = n.height
    /\ grid' = n.grid
    /\ objects' = n.objects
    /\ ents' = n.ents
    /\ activeIceBlocks' = n.ice
    /\ pushRequests' = n.push
    /\ accumulatedTime' = n.acc
    /\ pendingTimers' = n.timers
    /\ gameState' = n.gstate
    /\ player' = n.player
    /\ levelPlayer' = n.levelPlayer
    /\ loop' = n.loop
    /\ level' = n.level

\* The variables hold state s (in an initial condition).
Holds(s) ==
  \E n \in {s} :
    /\ width = n.width
    /\ height = n.height
    /\ grid = n.grid
    /\ objects = n.objects
    /\ ents = n.ents
    /\ activeIceBlocks = n.ice
    /\ pushRequests = n.push
    /\ accumulatedTime = n.acc
    /\ pendingTimers = n.timers
    /\ gameState = n.gstate
    /\ player = n.player
    /\ levelPlayer = n.levelPlayer
    /\ loop = n.loop
    /\ level = n.level

\* The state after the constructors of Game: an empty world of the given
\* size, empty subsystems, and the given objects on the heap.
\* The loop of a Game: isRunning and lastTime are its fields, now is the
\* browser's clock, scheduled counts the gameLoop callbacks registered with
\* requestAnimationFrame for the next animation frame, due those of the
\* current frame that have not run yet, passes the updates run in the
\* current frame; mainPending holds until main has called start, and
\* initPending until the promise of initializeGame is settled.
NewLoop(pending) ==
  [isRunning |-> TRUE, lastTime |-> 0, now |-> 0, scheduled |-> 0, due |-> 0,
   passes |-> 0, mainPending |-> pending, initPending |-> pending]

Constructed(w, h, es) ==
  [width |-> w, height |-> h, grid |-> EmptyGrid(w, h), objects |-> <<>>,
   ents |-> es, ice |-> <<>>, push |-> <<>>, acc |-> 0, timers |-> <<>>,
   gstate |-> "menu", player |-> 0, levelPlayer |-> 0, loop |-> NewLoop(FALSE),
   level |-> [width |-> 0, height |-> 0, data |-> <<>>]]

\* A world with the objects of the heap added in heap order at their own
\* coordinates.
RECURSIVE addAll(_, _)
addAll(s, o) ==
  IF o > Len(s.ents) THEN s
  ELSE With(addObject(s, o, s.ents[o].gridX, s.ents[o].gridY),
            LAMBDA s1 : addAll(s1, o + 1))

NewWorld(w, h, es) == addAll(Constructed(w, h, es), 1)

NewObject(kind, x, y) ==
  CASE kind = "player" -> Player(x, y)
    [] kind = "wall" -> Wall(x, y)
    [] kind = "ice_block" -> IceBlock(x, y)
    [] kind = "stone" -> Stone(x, y)
    [] kind = "flame" -> Flame(x, y)
    [] kind = "pot" -> Pot(x, y, TRUE)
    [] kind = "hot_pot" -> Pot(x, y, FALSE)
    [] OTHER -> Portal(x, y, <<kind>>)

----------------------------------------------------------------------------
(* PushSystem; s.push is pushRequests, s.timers the setTimeout callbacks
   that are pending, oldest first *)

\* Forces are counted in quarters: 4 is the default force 1, 2 is 0.5.
DEFAULT_FORCE == 4
CHAIN_FORCE == 2

requestPush(s, o, direction, force) ==
  IF ~isPushable(s.ents[o]) THEN s
  ELSE [s EXCEPT !.push = Append(@, [object |-> o, direction |-> direction,
                                     force |-> force,
                                     distance |-> getPushDistance(s.ents[o])])]

isOnSolidGround(s, o) ==
  IF s.ents[o].gridY <= 0 THEN TRUE
  ELSE LET groundObject == getObjectAt(s, s.ents[o].gridX, s.ents[o].gridY - 1)
       IN groundObject # 0 /\ canSupportWeight(s.ents[groundObject])

checkPushConstraints(s, o) ==
  /\ isOnSolidGround(s, o)
  /\ ~(getWeight(s.ents[o]) > MAX_PUSH_WEIGHT)
  /\ ~s.ents[o].sliding

canPushTo(s, o, targetX, targetY) ==
  /\ ~isOutOfBounds(s, targetX, targetY)
  /\ LET targetObject == getObjectAt(s, targetX, targetY)
     IN ~(targetObject # 0 /\ isSolid(s.ents[targetObject]))
  /\ checkPushConstraints(s, o)

\* The four neighbours in the order of the loop; only a horizontal
\* neighbour gets a request, in the direction of its own offset.
RECURSIVE chainEach(_, _, _, _)
chainEach(s, pushedObject, x, positions) ==
  IF positions = <<>> THEN s
  ELSE LET pos == Head(positions)
           object == getObjectAt(s, pos[1], pos[2])
           dx == pos[1] - x
       IN With(IF object # 0 /\ isPushable(s.ents[object])
                  /\ object # pushedObject /\ dx # 0
               THEN requestPush(s, object,
                                IF dx > 0 THEN "right" ELSE "left",
                                CHAIN_FORCE)
               ELSE s,
               LAMBDA s1 : chainEach(s1, pushedObject, x, Tail(positions)))

checkChainPushes(s, pushedObject, x, y) ==
  chainEach(s, pushedObject, x,
            <<<<x - 1, y>>, <<x + 1, y>>, <<x, y - 1>>, <<x, y + 1>>>>)

\* The timestamp property is not modelled; the timer callback is queued.
updatePhysicsAfterPush(s, o) == [s EXCEPT !.timers = Append(@, o)]

applyPushEffects(s, o, targetX, targetY) ==
  updatePhysicsAfterPush(
    checkChainPushes([s EXCEPT !.ents[o].just_pushed = TRUE],
                     o, targetX, targetY),
    o)

\* The move is addressed by the object's own position fields.
performPush(s, o, targetX, targetY) ==
  LET e == s.ents[o]
  IN IF moveObjectOk(s, e.gridX, e.gridY, targetX, targetY)
     THEN applyPushEffects(moveObject(s, e.gridX, e.gridY, targetX, targetY),
                           o, targetX, targetY)
     ELSE s

processPushRequest(s, request) ==
  LET o == request.object
      targetX == IF request.direction = "left"
                 THEN s.ents[o].gridX - request.distance
                 ELSE s.ents[o].gridX + request.distance
  IN IF canPushTo(s, o, targetX, s.ents[o].gridY)
     THEN performPush(s, o, targetX, s.ents[o].gridY)
     ELSE s

RECURSIVE processEach(_, _)
processEach(s, requests) ==
  IF requests = <<>> THEN s
  ELSE With(processPushRequest(s, Head(requests)),
            LAMBDA s1 : processEach(s1, Tail(requests)))

\* The queue is not cleared before its requests are processed.
processPushRequests_KeepQueue(s) == processEach(s, s.push)

processPushRequests(s) == processEach([s EXCEPT !.push = <<>>], s.push)

\* The callback of the oldest pending timer.
timerCallback(s) ==
  [s EXCEPT !.ents[Head(s.timers)].just_pushed = FALSE, !.timers = Tail(@)]

----------------------------------------------------------------------------
(* GameRulesSystem *)

areInteracting(e1, e2) ==
  \/ e1.gridX = e2.gridX /\ e1.gridY = e2.gridY
  \/ Abs(e1.gridX - e2.gridX) = 1 /\ e1.gridY = e2.gridY
  \/ Abs(e1.gridY - e2.gridY) = 1 /\ e1.gridX = e2.gridX

ignitePot(es, pot, flame) == destroy(startHeating(es, pot), flame)

meltIceBlock(es, ice, flame) == startMelting(es, ice)

\* Mutant: the flame is left burning.
extinguishFlame_MeltOnly(es, flame, ice) == startMelting(es, ice)

extinguishFlame(es, flame, ice) == startMelting(destroy(es, flame), ice)

coolPot(es, pot, ice) == destroy(coolDown(es, pot), ice)

\* Mutant: only the first pot of the pair can give its heat away.
handlePotPotInteraction_FirstOnly(es, pot1, pot2) ==
  IF es[pot1].is_hot /\ ~es[pot2].is_hot
  THEN startHeating(coolDown(es, pot1), pot2)
  ELSE es

handlePotPotInteraction(es, pot1, pot2) ==
  IF es[pot1].is_hot /\ ~es[pot2].is_hot
  THEN startHeating(coolDown(es, pot1), pot2)
  ELSE IF ~es[pot1].is_hot /\ es[pot2].is_hot
       THEN startHeating(coolDown(es, pot2), pot1)
       ELSE es

\* No class sets the 'flammable' property, so fire never spreads.
handleFireInteractions(es, obj1, obj2) ==
  IF es[obj1].type = "flame" \/ es[obj2].type = "flame"
  THEN LET flame == IF es[obj1].type = "flame" THEN obj1 ELSE obj2
           other == IF es[obj1].type = "flame" THEN obj2 ELSE obj1
           es1 == IF es[other].type = "pot" /\ es[other].is_cold
                  THEN ignitePot(es, other, flame)
                  ELSE es
       IN IF es1[other].type = "ice_block"
          THEN meltIceBlock(es1, other, flame)
          ELSE es1
  ELSE es

handleIceInteractions(es, obj1, obj2) ==
  IF es[obj1].type = "ice_block" \/ es[obj2].type = "ice_block"
  THEN LET ice == IF es[obj1].type = "ice_block" THEN obj1 ELSE obj2
           other == IF es[obj1].type = "ice_block" THEN obj2 ELSE obj1
           es1 == IF es[other].type = "flame"
                  THEN extinguishFlame(es, other, ice)
                  ELSE es
       IN IF es1[other].type = "pot" /\ es1[other].is_hot
          THEN coolPot(es1, other, ice)
          ELSE es1
  ELSE es

handlePotInteractions(es, obj1, obj2) ==
  IF es[obj1].type = "pot" \/ es[obj2].type = "pot"
  THEN LET pot1 == IF es[obj1].type = "pot" THEN obj1 ELSE obj2
           pot2 == IF es[obj1].type = "pot" THEN obj2 ELSE obj1
       IN IF es[pot2].type = "pot"
          THEN handlePotPotInteraction(es, pot1, pot2)
          ELSE es
  ELSE es

handlePortalInteractions(es, obj1, obj2) ==
  IF es[obj1].type = "portal" \/ es[obj2].type = "portal"
  THEN LET portal == IF es[obj1].type = "portal" THEN obj1 ELSE obj2
           other == IF es[obj1].type = "portal" THEN obj2 ELSE obj1
       IN IF canTeleport(es[other])
          THEN PortalOnCollision(es, portal, other)
          ELSE es
  ELSE es

\* No class sets the 'falling' property, so its default (false) is read.
isFalling(e) == FALSE

crushObject(es, obj, crusher) ==
  IF getWeight(es[crusher]) > getWeight(es[obj]) THEN destroy(es, obj) ELSE es

handleStoneInteractions(es, obj1, obj2) ==
  IF es[obj1].type = "stone" \/ es[obj2].type = "stone"
  THEN LET stone == IF es[obj1].type = "stone" THEN obj1 ELSE obj2
           other == IF es[obj1].type = "stone" THEN obj2 ELSE obj1
       IN IF isFalling(es[stone]) /\ isFragile(es[other])
          THEN crushObject(es, other, stone)
          ELSE es
  ELSE es

handleInteraction(es, obj1, obj2) ==
  handleStoneInteractions(
    handlePortalInteractions(
      handlePotInteractions(
        handleIceInteractions(
          handleFireInteractions(es, obj1, obj2),
          obj1, obj2),
        obj1, obj2),
      obj1, obj2),
    obj1, obj2)

\* The body of the inner loop for the pair p of positions in the list.
interactPair(es, os, p) ==
  LET obj1 == os[p[1]]
      obj2 == os[p[2]]
  IN IF areInteracting(es[obj1], es[obj2])
     THEN handleInteraction(es, obj1, obj2)
     ELSE es

RECURSIVE interactPairs(_, _, _)
interactPairs(es, os, ps) ==
  IF ps = <<>> THEN es
  ELSE IF Len(ps) = 1 THEN interactPair(es, os, ps[1])
  ELSE With(interactPairs(es, os, FirstHalf(ps)),
            LAMBDA es1 : interactPairs(es1, os, SecondHalf(ps)))

checkObjectInteractions(s) ==
  LET os == getAllObjects(s)
  IN [s EXCEPT !.ents = interactPairs(@, os, PairsFrom(1, 2, Len(os)))]

\* The pairs (a, b) of two lists in the order of two nested loops.
RECURSIVE Product(_, _, _)
Product(as, bs, rest) ==
  IF as = <<>> THEN <<>>
  ELSE IF rest = <<>> THEN Product(Tail(as), bs, bs)
  ELSE <<<<Head(as), Head(rest)>>>> \o Product(as, bs, Tail(rest))

\* The square of the distance that the sweeps compare with 2 and with 1.
DistanceSquared(e1, e2) ==
  (e1.gridX - e2.gridX) * (e1.gridX - e2.gridX)
  + (e1.gridY - e2.gridY) * (e1.gridY - e2.gridY)

HEAT_RADIUS == 2
COOLING_RADIUS == 1

\* Mutant: the radius itself is compared with the squared distance.
heatPair_Near(es, p) ==
  IF DistanceSquared(es[p[1]], es[p[2]]) <= HEAT_RADIUS
  THEN startMelting(es, p[1])
  ELSE es

heatPair(es, p) ==
  IF DistanceSquared(es[p[1]], es[p[2]]) <= HEAT_RADIUS * HEAT_RADIUS
  THEN startMelting(es, p[1])
  ELSE es

RECURSIVE heatEach(_, _)
heatEach(es, ps) ==
  IF ps = <<>> THEN es
  ELSE IF Len(ps) = 1 THEN heatPair(es, ps[1])
  ELSE With(heatEach(es, FirstHalf(ps)),
            LAMBDA es1 : heatEach(es1, SecondHalf(ps)))

applyHeatEffects(s) ==
  LET iceBlocks == getObjectsOfType(s, "ice_block")
      hotObjects == SelectSeq(getAllObjects(s),
                              LAMBDA o : \/ s.ents[o].type = "flame"
                                         \/ isHotPot(s.ents[o]))
  IN [s EXCEPT !.ents = heatEach(@, Product(iceBlocks, hotObjects, hotObjects))]

coolPair(es, p) ==
  IF /\ DistanceSquared(es[p[1]], es[p[2]])
          <= COOLING_RADIUS * COOLING_RADIUS
     /\ es[p[2]].type = "ice_block"
  THEN extinguishFlame(es, p[1], p[2])
  ELSE es

RECURSIVE coolEach(_, _)
coolEach(es, ps) ==
  IF ps = <<>> THEN es
  ELSE IF Len(ps) = 1 THEN coolPair(es, ps[1])
  ELSE With(coolEach(es, FirstHalf(ps)),
            LAMBDA es1 : coolEach(es1, SecondHalf(ps)))

applyCoolingEffects(s) ==
  LET flames == getObjectsOfType(s, "flame")
      coldObjects == SelectSeq(getAllObjects(s),
                               LAMBDA o : \/ s.ents[o].type = "ice_block"
                                          \/ /\ s.ents[o].type = "pot"
                                             /\ s.ents[o].is_cold)
  IN [s EXCEPT !.ents = coolEach(@, Product(flames, coldObjects, coldObjects))]

\* An inactive object is removed at its own coordinates.
RECURSIVE cleanupEach(_, _)
cleanupEach(s, os) ==
  IF os = <<>> THEN s
  ELSE With(IF ~s.ents[Head(os)].isActive
            THEN removeObject(s, s.ents[Head(os)].gridX,
                              s.ents[Head(os)].gridY)
            ELSE s,
            LAMBDA s1 : cleanupEach(s1, Tail(os)))

cleanupDestroyedObjects(s) == cleanupEach(s, getAllObjects(s))

\* GameRulesSystem.update; the win and lose checks of handleSpecialRules
\* only read.
gameRulesUpdate(s) ==
  With(checkObjectInteractions(s), LAMBDA s1 :
  With(applyHeatEffects(s1), LAMBDA s2 :
  With(applyCoolingEffects(s2), LAMBDA s3 :
    cleanupDestroyedObjects(s3))))

----------------------------------------------------------------------------
(* Player; s.player is the Game's player *)

JUMP_COOLDOWN_STEPS == 18
ICE_CREATE_COOLDOWN_STEPS == 30
JUMP_COOLDOWN == JUMP_COOLDOWN_STEPS * TicksPerStep
ICE_CREATE_COOLDOWN == ICE_CREATE_COOLDOWN_STEPS * TicksPerStep

canStandAt(s, x, y) ==
  IF y > 0
  THEN LET groundObject == getObjectAt(s, x, y - 1)
       IN groundObject # 0 /\ canSupportWeight(s.ents[groundObject])
  ELSE FALSE

\* The value tryPush returns.
tryPushOk(s, object, direction) ==
  LET e == s.ents[object]
      targetX == e.gridX + direction * getPushDistance(e)
  IN /\ targetX >= 0 /\ targetX < s.width
     /\ LET targetObject == getObjectAt(s, targetX, e.gridY)
        IN targetObject = 0 \/ ~isSolid(s.ents[targetObject])

\* The result of moveObject is not looked at; setPosition follows it.
tryPush(s, object, direction) ==
  LET e == s.ents[object]
      targetX == e.gridX + direction * getPushDistance(e)
  IN IF tryPushOk(s, object, direction)
     THEN LET s1 == moveObject(s, e.gridX, e.gridY, targetX, e.gridY)
          IN [s1 EXCEPT !.ents = setPosition(@, object, targetX,
                                             s1.ents[object].gridY)]
     ELSE s

\* The value tryMove returns.
tryMoveOk(s, newX, newY, direction) ==
  IF isOutOfBounds(s, newX, newY) THEN FALSE
  ELSE LET targetObject == getObjectAt(s, newX, newY)
       IN IF targetObject # 0 /\ isSolid(s.ents[targetObject])
          THEN /\ isPushable(s.ents[targetObject])
               /\ tryPushOk(s, targetObject, direction)
          ELSE canStandAt(s, newX, newY)

tryMove(s, newX, newY, direction) ==
  IF isOutOfBounds(s, newX, newY) THEN s
  ELSE LET p == s.player
           targetObject == getObjectAt(s, newX, newY)
       IN IF targetObject # 0 /\ isSolid(s.ents[targetObject])
          THEN IF isPushable(s.ents[targetObject])
               THEN tryPush(s, targetObject, direction)
               ELSE s
          ELSE IF canStandAt(s, newX, newY)
               THEN [moveObject(s, s.ents[p].gridX, s.ents[p].gridY, newX, newY)
                       EXCEPT !.ents = setPosition(@, p, newX, newY)]
               ELSE s

moveLeft(s) ==
  tryMove(s, s.ents[s.player].gridX - 1, s.ents[s.player].gridY, -1)

moveRight(s) ==
  tryMove(s, s.ents[s.player].gridX + 1, s.ents[s.player].gridY, 1)

\* The value tryCreateIce returns.
tryCreateIceOk(s, x, y) ==
  /\ ~(s.ents[s.player].iceCreateCooldown > 0)
  /\ ~isOutOfBounds(s, x, y)
  /\ getObjectAt(s, x, y) = 0
  /\ createIceBlockOk(x, y)

\* A refused creation by the ice system still leaves nothing behind: the
\* refusal comes before the block is made.
tryCreateIce(s, x, y) ==
  IF tryCreateIceOk(s, x, y)
  THEN LET s1 == createIceBlock(s, x, y)
           iceBlock == Len(s1.ents)
       IN [addObject(s1, iceBlock, x, y)
             EXCEPT !.ents[s.player].iceCreateCooldown = ICE_CREATE_COOLDOWN]
  ELSE s

createIceLeft(s) ==
  tryCreateIce(s, s.ents[s.player].gridX - 1, s.ents[s.player].gridY)

createIceRight(s) ==
  tryCreateIce(s, s.ents[s.player].gridX + 1, s.ents[s.player].gridY)

\* The value jump returns.
jumpOk(s) ==
  LET e == s.ents[s.player]
      jumpY == e.gridY + 1
  IN /\ ~(e.jumpCooldown > 0)
     /\ jumpY < s.height
     /\ LET aboveObject == getObjectAt(s, e.gridX, jumpY)
        IN aboveObject = 0 \/ ~isSolid(s.ents[aboveObject])

jump(s) ==
  LET p == s.player
      e == s.ents[p]
      jumpY == e.gridY + 1
  IN IF jumpOk(s)
     THEN [moveObject(s, e.gridX, e.gridY, e.gridX, jumpY)
             EXCEPT !.ents = [setPosition(@, p, e.gridX, jumpY)
                                EXCEPT ![p].jumpCooldown = JUMP_COOLDOWN]]
     ELSE s

----------------------------------------------------------------------------
(* LevelManager; a level is [width, height, data], data the rows of glyphs
   from the top row down; s.levelPlayer is LevelManager.player *)

Min(a, b) == IF a < b THEN a ELSE b

PortalGlyphs == {"1", "2", "3"}

\* The object a glyph stands for, as a list of none or one.
createGameObjectFromChar(char, x, y) ==
  CASE char = "P" -> <<Player(x, y)>>
    [] char = "W" -> <<Wall(x, y)>>
    [] char = "I" -> <<IceBlock(x, y)>>
    [] char = "S" -> <<Stone(x, y)>>
    [] char = "F" -> <<Flame(x, y)>>
    [] char = "C" -> <<Pot(x, y, TRUE)>>
    [] char = "H" -> <<Pot(x, y, FALSE)>>
    [] char \in PortalGlyphs ->
         <<[Portal(x, y, <<"portal_", char>>) EXCEPT !.portal_group = char]>>
    [] OTHER -> <<>>

\* The objects of the level in the order of the scan (x and y from 0).
RECURSIVE scanLevel(_, _, _)
scanLevel(lv, y, x) ==
  IF y >= Len(lv.data) THEN <<>>
  ELSE IF x >= Min(Len(lv.data[y + 1]), lv.width) THEN scanLevel(lv, y + 1, 0)
  ELSE createGameObjectFromChar(lv.data[y + 1][x + 1], x, lv.height - y - 1)
       \o scanLevel(lv, y, x + 1)

\* Portal.createPortalPair: two new portals that reference each other.
createPortalPair(es, x1, y1, x2, y2, portalId) ==
  es \o <<[Portal(x1, y1, portalId) EXCEPT !.pairedPortal = Len(es) + 2],
          [Portal(x2, y2, portalId) EXCEPT !.pairedPortal = Len(es) + 1]>>

\* The groups of the scanned portals in the order of their first member.
RECURSIVE portalGroups(_, _, _)
portalGroups(es, os, seen) ==
  IF os = <<>> THEN <<>>
  ELSE LET e == es[Head(os)]
       IN IF e.type = "portal" /\ e.portal_group \notin seen
          THEN <<e.portal_group>>
               \o portalGroups(es, Tail(os), seen \cup {e.portal_group})
          ELSE portalGroups(es, Tail(os), seen)

\* For a group of exactly two the pair is made from their coordinates; the
\* result of createPortalPair is dropped.
RECURSIVE pairEach(_, _, _)
pairEach(es, os, groups) ==
  IF groups = <<>> THEN es
  ELSE LET portals == SelectSeq(os, LAMBDA o : /\ es[o].type = "portal"
                                               /\ es[o].portal_group = Head(groups))
       IN pairEach(
            IF Len(portals) = 2
            THEN createPortalPair(es,
                                  es[portals[1]].gridX, es[portals[1]].gridY,
                                  es[portals[2]].gridX, es[portals[2]].gridY,
                                  <<"pair_", Head(groups)>>)
            ELSE es,
            os, Tail(groups))

createPortalPairs(es, os) == pairEach(es, os, portalGroups(es, os, {}))

RECURSIVE addEach(_, _)
addEach(s, os) ==
  IF os = <<>> THEN s
  ELSE With(addObject(s, Head(os), s.ents[Head(os)].gridX,
                      s.ents[Head(os)].gridY),
            LAMBDA s1 : addEach(s1, Tail(os)))

parseLevelData(s, lv) ==
  LET made == scanLevel(lv, 0, 0)
      base == Len(s.ents)
      os == [i \in 1 .. Len(made) |-> base + i]
      players == SelectSeq(os, LAMBDA o : (s.ents \o made)[o].type = "player")
      s1 == [s EXCEPT !.ents = createPortalPairs(s.ents \o made, os),
                      !.levelPlayer = IF players = <<>> THEN @
                                      ELSE players[Len(players)]]
      s2 == addEach(s1, SelectSeq(os, LAMBDA o : s1.ents[o].type # "portal"))
  IN addEach(s2, SelectSeq(os, LAMBDA o : s1.ents[o].type = "portal"))

\* loadLevel once the level's data is there; the ice system is not reset.
loadLevel(s, lv) == parseLevelData([clear(s) EXCEPT !.level = lv], lv)

----------------------------------------------------------------------------
(* Game: one frame in the PLAYING state *)

\* The frame time is capped at 0.1 s, six fixed steps.
MAX_FRAME_STEPS == 6

NoKeys == [left |-> FALSE, right |-> FALSE, a |-> FALSE, d |-> FALSE,
           space |-> FALSE]

\* InputHandler.update: the copy of the key states that becomes previousKeys.
inputUpdate(keys) == keys

isKeyJustPressed(keys, previousKeys, key) == keys[key] /\ ~previousKeys[key]

\* Game.update calls InputHandler.update before it reads any key.
handlePlayerInput(s, keys, previousKeys) ==
  IF s.player = 0 \/ s.gstate # "playing" THEN s
  ELSE LET s1 == IF keys.left THEN moveLeft(s)
                 ELSE IF keys.right THEN moveRight(s)
                 ELSE s
           s2 == IF keys.a THEN createIceLeft(s1)
                 ELSE IF keys.d THEN createIceRight(s1)
                 ELSE s1
       IN IF isKeyJustPressed(keys, previousKeys, "space") THEN jump(s2)
          ELSE s2

checkWinConditions(s) ==
  IF countObjectsOfType(s, "flame") = 0 /\ s.gstate = "playing"
  THEN [s EXCEPT !.gstate = "win"]
  ELSE s

\* The PLAYING branch of Game.update; the statistics of the state manager
\* (elapsed time, moves) are not part of the state.
\* The calls of Game.update before GameRulesSystem.update.
updateBeforeRules(s, dt) ==
  With(worldUpdate(s, dt), LAMBDA s1 :
  With(physicsUpdate(s1, dt), LAMBDA s2 :
  With(updateAllIceBlocks(s2, dt), LAMBDA s3 :
    processPushRequests(s3))))

\* The calls of Game.update up to the return of GameRulesSystem.update.
updateSubsystems(s, dt) == gameRulesUpdate(updateBeforeRules(s, dt))

gameUpdate(s, dt, keys) ==
  With(updateSubsystems(s, dt), LAMBDA s5 :
  With(handlePlayerInput(s5, keys, inputUpdate(keys)), LAMBDA s6 :
    checkWinConditions(s6)))

\* initializeGame followed by the key that leaves the menu.
startGame(w, h, lv) ==
  LET s == loadLevel(Constructed(w, h, <<>>), lv)
  IN [s EXCEPT !.player = s.levelPlayer, !.gstate = "playing"]

----------------------------------------------------------------------------
(* History variables *)

\* The history of the last call: its name and result and, for a call that
\* names cells, the case its arguments fall in (cause) and, when they name a
\* held object and a free cell, the object and the two cells.
Op(name, ret) ==
  [op |-> name, ret |-> ret, o |-> 0, from |-> <<>>, to |-> <<>>, cause |-> ""]

NoOp == Op("none", FALSE)

OutsideWorld(x, y) == ~(x \in 0 .. width - 1 /\ y \in 0 .. height - 1)

MoveCause(x, y, tx, ty) ==
  IF OutsideWorld(x, y) \/ OutsideWorld(tx, ty) THEN "bounds"
  ELSE IF grid[<<x, y>>] = 0 THEN "empty"
  ELSE IF <<x, y>> = <<tx, ty>> THEN "same"
  ELSE IF grid[<<tx, ty>>] # 0 THEN "occupied"
  ELSE "free"

MoveOp(name, ret, x, y, tx, ty) ==
  IF MoveCause(x, y, tx, ty) = "free"
  THEN [op |-> name, ret |-> ret, o |-> grid[<<x, y>>], from |-> <<x, y>>,
        to |-> <<tx, ty>>, cause |-> "free"]
  ELSE [Op(name, ret) EXCEPT !.cause = MoveCause(x, y, tx, ty)]

\* Objects the World holds in some cell.
Placed == {grid[c] : c \in DOMAIN grid} \ {0}

----------------------------------------------------------------------------
(* Specification SpecWorld: the GameWorld API called in any order *)

WorldW == 3
WorldH == 1

\* Arguments range over the cells and one ring of cells outside the world.
ArgX == -1 .. width
ArgY == -1 .. height

WorldDts == {TicksPerStep, 2 * TicksPerStep}

\* A block that has been melting for a while and a stone, built but not yet
\* placed.
WorldPool ==
  << [IceBlock(0, 0) EXCEPT !.isMelting = TRUE,
                            !.meltTimer = ICE_MELT_TIME - 3 * TicksPerStep],
     Stone(0, 0) >>

InitWorld ==
  /\ Holds(Constructed(WorldW, WorldH, WorldPool))
  /\ lastOp = NoOp
  /\ clock = 0

AddObjectAt(o, x, y) ==
  /\ clock < WorldMaxOps
  /\ o \notin Placed
  /\ ents[o].isActive
  /\ Install(addObject(State, o, x, y))
  /\ lastOp' = Op("addObject", addObjectOk(State, x, y))
  /\ clock' = clock + 1

AddObject == \E o \in DOMAIN ents, x \in ArgX, y \in ArgY : AddObjectAt(o, x, y)

RemoveObjectAt(x, y) ==
  /\ clock < WorldMaxOps
  /\ Install(removeObject(State, x, y))
  /\ lastOp' = Op("removeObject", getObjectAt(State, x, y) # 0)
  /\ clock' = clock + 1

RemoveObject == \E x \in ArgX, y \in ArgY : RemoveObjectAt(x, y)

MoveObjectAt(x, y, tx, ty) ==
  /\ clock < WorldMaxOps
  /\ Install(moveObject(State, x, y, tx, ty))
  /\ lastOp' = MoveOp("moveObject", moveObjectOk(State, x, y, tx, ty),
                      x, y, tx, ty)
  /\ clock' = clock + 1

MoveObject ==
  \E x \in ArgX, y \in ArgY, tx \in ArgX, ty \in ArgY : MoveObjectAt(x, y, tx, ty)

WorldUpdate ==
  \E dt \in WorldDts :
    /\ clock < WorldMaxOps
    /\ Install(worldUpdate(State, dt))
    /\ lastOp' = Op("update", TRUE)
    /\ clock' = clock + 1

Clear ==
  /\ clock < WorldMaxOps
  /\ Install(clear(State))
  /\ lastOp' = Op("clear", TRUE)
  /\ clock' = clock + 1

NextWorld == AddObject \/ RemoveObject \/ MoveObject \/ WorldUpdate \/ Clear

SpecWorld == InitWorld /\ [][NextWorld]_vars

----------------------------------------------------------------------------
(* Claims about the GameWorld API *)

\* C2: under the World API alone the index maps key (x,y) to e exactly when
\* cell (x,y) holds e, e's coordinates are then (x,y), index keys are unique
\* and no entity is held by two cells.
C2_GridIndexAgree ==
  /\ \A c \in DOMAIN grid :
       grid[c] # 0 =>
         /\ HasKey(objects, c)
         /\ MapGet(objects, c) = grid[c]
         /\ ents[grid[c]].gridX = c[1]
         /\ ents[grid[c]].gridY = c[2]
  /\ \A i \in DOMAIN objects :
       /\ objects[i].key \in DOMAIN grid
       /\ grid[objects[i].key] = objects[i].obj
  /\ \A i, j \in DOMAIN objects : objects[i].key = objects[j].key => i = j
  /\ \A c, d \in DOMAIN grid : (grid[c] # 0 /\ grid[c] = grid[d]) => c = d

\* An update has just purged the melted block while the stone, moved since
\* it was added, is still held.
C2_Witness ==
  /\ lastOp.op = "update"
  /\ ~ents[1].isActive
  /\ 1 \notin Placed
  /\ 2 \in Placed
  /\ Len(objects) = 1

\* C3: moveObject returns false and changes nothing when an endpoint is out
\* of bounds, the source is empty or the destination is occupied (from = to
\* included); otherwise it returns true, the source cell is empty, the
\* destination cell and index entry hold the entity, the old key is gone and
\* the entity's coordinates are the destination.
C3_MoveAtomicity ==
  [][(lastOp'.op = "moveObject" /\ clock' = clock + 1) =>
       /\ lastOp'.ret = (lastOp'.cause = "free")
       /\ ~lastOp'.ret =>
            /\ grid' = grid
            /\ objects' = objects
            /\ ents' = ents
       /\ lastOp'.ret =>
            LET o == lastOp'.o
                from == lastOp'.from
                to == lastOp'.to
            IN /\ grid[from] = o
               /\ grid'[from] = 0
               /\ grid'[to] = o
               /\ MapGet(objects', to) = o
               /\ ~HasKey(objects', from)
               /\ ents'[o].gridX = to[1]
               /\ ents'[o].gridY = to[2]
               /\ \A c \in DOMAIN grid \ {from, to} : grid'[c] = grid[c]
               /\ \A p \in DOMAIN ents \ {o} : ents'[p] = ents[p]
  ]_vars

\* A move has succeeded while the other object is held too, and a move onto
\* an occupied cell has been refused.
C3_Witness ==
  /\ lastOp.op = "moveObject"
  /\ lastOp.ret
  /\ Cardinality(Placed) = 2

C3_WitnessRefused ==
  /\ lastOp.op = "moveObject"
  /\ ~lastOp.ret
  /\ lastOp.cause \in {"occupied", "same"}

----------------------------------------------------------------------------
(* Specification SpecGravity: PhysicsEngine.update on a world holding one   *)
(* gravity-affected object above an empty stretch of its column, which ends *)
(* at row 0 or at a resting, weight-supporting object                       *)

GravW == 6
GravH == 11
GravMaxSteps == 12

GravDts == 1 .. 2 * TicksPerStep

FallerKinds == {"player", "ice_block", "stone", "pot"}
SupportKinds == {"none", "wall", "stone", "ice_block"}

InitGravity ==
  \E x0 \in 0 .. GravW - 1, y0 \in 0 .. GravH - 1, r \in 0 .. GravH - 1,
     kind \in FallerKinds, sup \in SupportKinds :
    /\ sup = "none" => r = 0
    /\ sup # "none" => r < y0
    /\ sup \in {"stone", "ice_block"} => r = 0
    /\ Holds(NewWorld(GravW, GravH,
                      IF sup = "none" THEN <<NewObject(kind, x0, y0)>>
                      ELSE <<NewObject(kind, x0, y0), NewObject(sup, x0, r)>>))
    /\ lastOp = [Op("start", TRUE) EXCEPT
                   !.o = 1, !.from = <<x0, y0>>,
                   !.to = <<x0, IF sup = "none" THEN 0 ELSE r + 1>>]
    /\ clock = 0

\* clock counts the fixed steps that the calls so far contain.
PhysicsUpdate ==
  \E dt \in GravDts :
    /\ clock + ((accumulatedTime + dt) \div TicksPerStep) <= GravMaxSteps
    /\ Install(physicsUpdate(State, dt))
    /\ clock' = clock + ((accumulatedTime + dt) \div TicksPerStep)
    /\ UNCHANGED lastOp

NextGravity == PhysicsUpdate

SpecGravity == InitGravity /\ [][NextGravity]_vars

----------------------------------------------------------------------------
(* Specification SpecIce: one IceBlock held by the World, tracked by the    *)
(* IceBlockSystem or not, whose melt is triggered once and which is then    *)
(* updated by GameWorld.update and updateAllIceBlocks with dt no larger     *)
(* than the fixed step                                                      *)

IceW == 3
IceH == 2
IceSlack == 4

IceDts == 1 .. FIXED_TIMESTEP

InitIce ==
  \E x \in 0 .. IceW - 1, tracked \in BOOLEAN :
    LET s0 == NewWorld(IceW, IceH, <<IceBlock(x, 0)>>)
    IN /\ Holds(IF tracked THEN [s0 EXCEPT !.ice = MapSet(@, <<x, 0>>, 1)]
                ELSE s0)
       /\ lastOp = NoOp
       /\ clock = 0

\* The one trigger of the melt.
IceStartMelting ==
  /\ lastOp.op = "none"
  /\ Install([State EXCEPT !.ents = startMelting(@, 1)])
  /\ lastOp' = Op("startMelting", TRUE)
  /\ UNCHANGED clock

\* clock is the time the update calls received since the trigger add up to.
IceReceives(dt) ==
  IF ents[1].isActive /\ lastOp.op # "none" THEN clock + dt ELSE clock

IceWorldUpdate ==
  \E dt \in IceDts :
    /\ clock < ICE_MELT_TIME + IceSlack
    /\ Install(worldUpdate(State, dt))
    /\ clock' = IceReceives(dt)
    /\ lastOp' = IF lastOp.op = "none" THEN lastOp ELSE Op("update", TRUE)

IceSystemUpdate ==
  \E dt \in IceDts :
    /\ clock < ICE_MELT_TIME + IceSlack
    /\ activeIceBlocks # <<>>
    /\ Install(updateAllIceBlocks(State, dt))
    /\ clock' = IceReceives(dt)
    /\ lastOp' = IF lastOp.op = "none" THEN lastOp
                 ELSE Op("updateAllIceBlocks", TRUE)

NextIce == IceStartMelting \/ IceWorldUpdate \/ IceSystemUpdate

SpecIce == InitIce /\ [][NextIce]_vars

\* IceBlock.getMeltingProgress as a fraction of ICE_MELT_TIME: the numerator.
getMeltingProgress(e) ==
  IF ~e.isMelting THEN 0
  ELSE IF e.meltTimer < ICE_MELT_TIME THEN e.meltTimer ELSE ICE_MELT_TIME

\* C5: after the trigger the block is active with progress strictly between
\* 0 and 1 while the updates received add up to more than 0 and less than
\* the melt duration; it is inactive, destroyed exactly once and out of the
\* World from the first update that brings the sum to the melt duration.
C5_IceLifecycle ==
  lastOp.op # "none" =>
    /\ clock < ICE_MELT_TIME =>
         /\ ents[1].isActive
         /\ ents[1].destroyed = 0
         /\ 1 \in Placed
         /\ clock > 0 =>
              /\ getMeltingProgress(ents[1]) > 0
              /\ getMeltingProgress(ents[1]) < ICE_MELT_TIME
    /\ clock >= ICE_MELT_TIME =>
         /\ ~ents[1].isActive
         /\ ents[1].destroyed = 1
         /\ 1 \notin Placed
         /\ clock < ICE_MELT_TIME + FIXED_TIMESTEP

\* The block has just melted on an update that overshot the duration.
C5_Witness ==
  /\ lastOp.op \in {"update", "updateAllIceBlocks"}
  /\ clock > ICE_MELT_TIME
  /\ ~ents[1].isActive
  /\ ents[1].destroyed = 1

C5_WitnessMelting ==
  /\ lastOp.op # "none"
  /\ clock = ICE_MELT_TIME - 1
  /\ ents[1].isActive

----------------------------------------------------------------------------
(* Specification SpecPush: the PushSystem on a small World.  Object 1 is a
   pushable object whose weight property and sliding flag are inputs; the
   second object, if any, stands somewhere else. *)

PushW == 4
PushH == 2
PushMaxOps == 4

PushedKinds == {"ice_block", "stone", "pot"}
OtherKinds == {"none", "wall", "flame", "ice_block"}

\* The weight property: the class's own, or one above the ceiling.
PushWeights(kind) == {NewObject(kind, 0, 0).weight, MAX_PUSH_WEIGHT + 1}

InitPush ==
  \E kind \in PushedKinds, other \in OtherKinds,
     c \in Cells(PushW, PushH), c2 \in Cells(PushW, PushH),
     sliding \in BOOLEAN :
    \E w \in PushWeights(kind) :
      /\ c2 # c
      /\ other = "none" => c2 = (IF c = <<0, 0>> THEN <<1, 0>> ELSE <<0, 0>>)
      /\ Holds(NewWorld(PushW, PushH,
           <<[NewObject(kind, c[1], c[2]) EXCEPT !.weight = w,
                                                 !.sliding = sliding]>>
           \o (IF other = "none" THEN <<>>
               ELSE <<NewObject(other, c2[1], c2[2])>>)))
      /\ lastOp = Op("start", TRUE)
      /\ clock = 0

RequestPush ==
  \E o \in DOMAIN ents, direction \in {"left", "right"} :
    /\ clock < PushMaxOps
    /\ Install(requestPush(State, o, direction, DEFAULT_FORCE))
    /\ lastOp' = Op("requestPush", isPushable(ents[o]))
    /\ clock' = clock + 1

ProcessPushRequests ==
  /\ clock < PushMaxOps
  /\ pushRequests # <<>>
  /\ Install(processPushRequests(State))
  /\ lastOp' = Op("processPushRequests", TRUE)
  /\ clock' = clock + 1

TimerCallback ==
  /\ pendingTimers # <<>>
  /\ Install(timerCallback(State))
  /\ lastOp' = Op("timer", TRUE)
  /\ UNCHANGED clock

NextPush == RequestPush \/ ProcessPushRequests \/ TimerCallback

SpecPush == InitPush /\ [][NextPush]_vars

\* C7: an object whose weight property is above 5 is relocated by no call
\* of processPushRequests: its coordinates and its cell stay as they were.
C7_PushWeightCeiling ==
  [][lastOp'.op = "processPushRequests" =>
       \A o \in DOMAIN ents :
         ents[o].weight > MAX_PUSH_WEIGHT =>
           /\ ents'[o].gridX = ents[o].gridX
           /\ ents'[o].gridY = ents[o].gridY
           /\ \A c \in DOMAIN grid : (grid'[c] = o) <=> (grid[c] = o)]_vars

----------------------------------------------------------------------------
(* Specification SpecPots: two orthogonally adjacent pots, one hot and one
   cold, under rules passes and World updates.  Object 1 is the one the
   World enumerates first. *)

PotW == 3
PotH == 2

PotDts == {FIXED_TIMESTEP, MAX_FRAME_STEPS * FIXED_TIMESTEP}

Adjacent(c1, c2) ==
  \/ Abs(c1[1] - c2[1]) = 1 /\ c1[2] = c2[2]
  \/ Abs(c1[2] - c2[2]) = 1 /\ c1[1] = c2[1]

InitPots ==
  \E c1 \in Cells(PotW, PotH), c2 \in Cells(PotW, PotH), hotFirst \in BOOLEAN :
    /\ Adjacent(c1, c2)
    /\ Holds(NewWorld(PotW, PotH, <<Pot(c1[1], c1[2], ~hotFirst),
                                    Pot(c2[1], c2[2], hotFirst)>>))
    /\ lastOp = Op("start", TRUE)
    /\ clock = 0

PotsRulesUpdate ==
  /\ Install(gameRulesUpdate(State))
  /\ lastOp' = Op("gameRulesUpdate", TRUE)
  /\ UNCHANGED clock

PotsWorldUpdate ==
  \E dt \in PotDts :
    /\ Install(worldUpdate(State, dt))
    /\ lastOp' = Op("update", TRUE)
    /\ UNCHANGED clock

NextPots == PotsRulesUpdate \/ PotsWorldUpdate

SpecPots == InitPots /\ [][NextPots]_vars

Reverse(seq) == [i \in DOMAIN seq |-> seq[Len(seq) + 1 - i]]

\* The same World with its enumeration order turned round.
OtherOrder(s) == [s EXCEPT !.objects = Reverse(@)]

\* hot is hot, cold is cold and not heating.
OneHotOneCold(es, hot, cold) ==
  /\ es[hot].is_hot /\ ~es[hot].is_cold
  /\ es[cold].is_cold /\ ~es[cold].is_hot /\ ~es[cold].isHeating

----------------------------------------------------------------------------
(* Specification SpecPortal: a pair of portals made by createPortalPair
   (objects 1 and 2), a portal without a pair (object 3) and one more
   object (object 4), all on the bottom row of the World that holds and
   updates them. *)

PortalW == 4
PortalH == 1
MaxTeleports == 2

PortalDts == {(MAX_FRAME_STEPS - 2) * FIXED_TIMESTEP,
              MAX_FRAME_STEPS * FIXED_TIMESTEP}

TravellerKinds == TeleportableTypes \cup {"flame"}

InitPortal ==
  \E cA \in {<<0, 0>>, <<PortalW - 1, 0>>}, cB \in Cells(PortalW, 1),
     cE \in Cells(PortalW, 1), kind \in TravellerKinds :
    LET cU == CHOOSE c \in Cells(PortalW, 1) : c \notin {cA, cB, cE}
    IN /\ cA # cB /\ cE \notin {cA, cB}
       /\ Holds(NewWorld(PortalW, PortalH,
            createPortalPair(<<>>, cA[1], cA[2], cB[1], cB[2], <<"pair">>)
            \o <<Portal(cU[1], cU[2], <<"single">>),
                 NewObject(kind, cE[1], cE[2])>>))
       /\ lastOp = Op("start", TRUE)
       /\ clock = 0

\* A teleport attempt: p.onCollision(o), as the rules pass and the
\* collision resolution make it.  clock counts the teleports.
PortalCollision ==
  \E p \in DOMAIN ents, o \in DOMAIN ents :
    /\ ents[p].type = "portal"
    /\ o # p
    /\ LET es1 == PortalOnCollision(ents, p, o)
       IN /\ Install([State EXCEPT !.ents = es1])
          /\ lastOp' = [Op("onCollision", es1 # ents) EXCEPT !.o = o,
                                                             !.from = <<p>>]
          /\ clock' = IF es1 # ents /\ clock < MaxTeleports
                      THEN clock + 1 ELSE clock

PortalWorldUpdate ==
  \E dt \in PortalDts :
    /\ Install(worldUpdate(State, dt))
    /\ lastOp' = Op("update", TRUE)
    /\ UNCHANGED clock

NextPortal == PortalCollision \/ PortalWorldUpdate

SpecPortal == InitPortal /\ [][NextPortal]_vars

C9_WitnessRefused ==
  /\ lastOp.op = "onCollision" /\ ~lastOp.ret
  /\ lastOp.from = <<1>> /\ canTeleport(ents[lastOp.o])
  /\ ents[1].cooldown > 0

----------------------------------------------------------------------------
(* Specification SpecLoad: LevelManager.loadLevel on levels of portal
   glyphs, into a World of the levels' size. *)

LevelW == 3
LevelH == 2
MaxLoads == 1

LoadGlyphs == {".", "1", "2"}

Levels ==
  {[width |-> LevelW, height |-> LevelH, data |-> rows] :
     rows \in [1 .. LevelH -> [1 .. LevelW -> LoadGlyphs]]}

InitLoad ==
  /\ Holds(Constructed(LevelW, LevelH, <<>>))
  /\ lastOp = NoOp
  /\ clock = 0

LoadLevel ==
  \E lv \in Levels :
    /\ clock < MaxLoads
    /\ Install(loadLevel(State, lv))
    /\ lastOp' = Op("loadLevel", TRUE)
    /\ clock' = clock + 1

NextLoad == LoadLevel

SpecLoad == InitLoad /\ [][NextLoad]_vars

\* The portals that the World holds for a glyph.
PlacedPortals(g) ==
  {o \in Placed : ents[o].type = "portal" /\ ents[o].portal_group = g}

\* C10: after a load, the two portals that the World holds for a glyph
\* occurring exactly twice have each other as paired portal, and the
\* portals of a glyph occurring once or more than twice have none.
C10_PortalPairing ==
  lastOp.op = "loadLevel" =>
    \A g \in PortalGlyphs :
      IF Cardinality(PlacedPortals(g)) = 2
      THEN \A o \in PlacedPortals(g) :
             /\ ents[o].pairedPortal \in PlacedPortals(g)
             /\ ents[o].pairedPortal # o
      ELSE \A o \in PlacedPortals(g) : ents[o].pairedPortal = 0

----------------------------------------------------------------------------
(* Specification SpecGame: a level is loaded, the game is started, and
   PLAYING frames run with any frame time and any key held. *)

GameMaxFrames == 4

GameDts == {FIXED_TIMESTEP, MAX_FRAME_STEPS * FIXED_TIMESTEP}

Row(a, b, c, d) == <<a, b, c, d>>

\* Levels of 4 x 3 cells, top row first, each with a flame so that the
\* game is not won at once.
GameLevels ==
  {[width |-> 4, height |-> 3, data |-> rows] :
     rows \in {<<Row(".", ".", ".", "."), Row("P", "F", ".", "I"),
                 Row("W", "W", "W", "W")>>,
               <<Row(".", ".", ".", "."), Row("P", "S", "F", "."),
                 Row("W", "W", "W", "W")>>,
               <<Row(".", "I", ".", "."), Row("P", ".", ".", "F"),
                 Row("W", "W", ".", "W")>>,
               <<Row("H", ".", ".", "F"), Row("C", "P", "1", "1"),
                 Row("W", "W", "W", "W")>>,
               <<Row("F", ".", ".", "."), Row("P", "I", "1", "H"),
                 Row("W", "W", "W", "W")>>,
               <<Row("F", ".", ".", "."), Row("P", "F", ".", "."),
                 Row("W", "W", "W", "W")>>}}

KeySets ==
  {[NoKeys EXCEPT ![k] = TRUE] : k \in DOMAIN NoKeys} \cup {NoKeys}

InitGame ==
  \E lv \in GameLevels :
    /\ Holds(startGame(lv.width, lv.height, lv))
    /\ lastOp = Op("start", TRUE)
    /\ clock = 0

\* Game.update in the PLAYING state; clock counts the frames and the history
\* keeps the frame's dt and keys.
Frame ==
  \E dt \in GameDts, keys \in KeySets :
    /\ clock < GameMaxFrames
    /\ gameState = "playing"
    /\ Install(gameUpdate(State, dt, keys))
    /\ lastOp' = [Op("update", TRUE) EXCEPT !.o = dt, !.to = keys]
    /\ clock' = clock + 1

NextGame == Frame

SpecGame == InitGame /\ [][NextGame]_vars

\* C1: every occupied cell holds an entity whose coordinates are the
\* cell's and which the index holds under the cell's key, and every index
\* entry is the entity of the cell of its key.
C1_GridInvariant ==
  /\ \A c \in DOMAIN grid :
       grid[c] # 0 =>
         /\ ents[grid[c]].gridX = c[1]
         /\ ents[grid[c]].gridY = c[2]
         /\ MapGet(objects, c) = grid[c]
  /\ \A i \in DOMAIN objects :
       /\ objects[i].key \in DOMAIN grid
       /\ grid[objects[i].key] = objects[i].obj

----------------------------------------------------------------------------
(* Specification SpecMelt: an ice block (object 1) on the bottom row with
   a flame or a hot pot some cells to its right, and a far flame that
   keeps the game in the PLAYING state; frames without a player. *)

MeltW == 7
MeltH == 1
MeltSlack == 1

MeltHorizon == ICE_MELT_TIME + MeltSlack * MAX_FRAME_STEPS * FIXED_TIMESTEP

MeltDts == {FIXED_TIMESTEP, MAX_FRAME_STEPS * FIXED_TIMESTEP}

HeatKinds == {"flame", "hot_pot"}

InitMelt ==
  \E heat \in HeatKinds, k \in 1 .. HEAT_RADIUS + 1 :
    /\ Holds([NewWorld(MeltW, MeltH,
                       <<IceBlock(0, 0), NewObject(heat, k, 0),
                         Flame(MeltW - 1, 0)>>)
                EXCEPT !.gstate = "playing"])
    /\ lastOp = Op("start", TRUE)
    /\ clock = 0

\* clock is the simulated time; lastOp.from is the time of the frame that
\* first left the block melting.
MeltFrame ==
  \E dt \in MeltDts :
    /\ clock < MeltHorizon + ICE_MELT_TIME
    /\ gameState = "playing"
    /\ Install(gameUpdate(State, dt, NoKeys))
    /\ clock' = clock + dt
    /\ lastOp' = IF lastOp.op = "start" /\ ents'[1].isMelting
                 THEN [Op("melting", TRUE) EXCEPT !.from = <<clock'>>]
                 ELSE lastOp

NextMelt == MeltFrame

SpecMelt == InitMelt /\ [][NextMelt]_vars

\* C6: once the block has started melting, it is destroyed and out of the
\* World by the time the frames since then add up to the melt duration.
C6_MeltCompletes ==
  lastOp.op = "melting" /\ clock - lastOp.from[1] >= ICE_MELT_TIME =>
    ~ents[1].isActive /\ 1 \notin Placed

----------------------------------------------------------------------------
(* Specification SpecBridge: levels of walls, one player and flames only;
   PLAYING frames of one fixed step with any key held.  lastOp.to is the
   set of flames that an ice block has touched so far. *)

BridgeW == 2
BridgeH == 4
BridgeMaxFrames == 3

BridgeCells == Cells(BridgeW, BridgeH) \ {c \in Cells(BridgeW, BridgeH) : c[2] = 0}

\* The glyph rows, top row first, of the level with walls along row 0, the
\* player at cell p and flames at the cells fs.
BridgeRows(p, fs) ==
  [r \in 1 .. BridgeH |->
     [x \in 1 .. BridgeW |->
        LET c == <<x - 1, BridgeH - r>>
        IN IF c[2] = 0 THEN "W"
           ELSE IF c = p THEN "P"
           ELSE IF c \in fs THEN "F"
           ELSE "."]]

BridgeLevels ==
  {[width |-> BridgeW, height |-> BridgeH, data |-> BridgeRows(p, fs)] :
     <<p, fs>> \in {q \in BridgeCells \X SUBSET BridgeCells :
                      /\ q[1] \notin q[2]
                      /\ Cardinality(q[2]) \in {1, 2}}}

\* An ice block of the heap is, by its position fields or by the cell that
\* holds it, in the cell of flame f or orthogonally adjacent to it.
IceTouches(s, f) ==
  \E i \in DOMAIN s.ents :
    /\ s.ents[i].type = "ice_block"
    /\ \E c \in {<<s.ents[i].gridX, s.ents[i].gridY>>}
                \cup {d \in DOMAIN s.grid : s.grid[d] = i} :
         Abs(c[1] - s.ents[f].gridX) + Abs(c[2] - s.ents[f].gridY) <= 1

Flames(s) == {f \in DOMAIN s.ents : s.ents[f].type = "flame"}

\* The flames touched before, between the subsystems or after the frame.
TouchedIn(s, dt, keys) ==
  LET s1 == worldUpdate(s, dt)
      s2 == physicsUpdate(s1, dt)
      s3 == updateAllIceBlocks(s2, dt)
      s5 == gameRulesUpdate(processPushRequests(s3))
      s6 == handlePlayerInput(s5, keys, inputUpdate(keys))
  IN {f \in Flames(s) :
        \E m \in {s, s1, s2, s3, s5, s6} : IceTouches(m, f)}

InitBridge ==
  \E lv \in BridgeLevels :
    /\ Holds(startGame(lv.width, lv.height, lv))
    /\ lastOp = [Op("start", TRUE) EXCEPT !.to = {}]
    /\ clock = 0

BridgeFrame ==
  \E keys \in KeySets :
    /\ clock < BridgeMaxFrames
    /\ gameState = "playing"
    /\ Install(gameUpdate(State, FIXED_TIMESTEP, keys))
    /\ lastOp' = [Op("update", TRUE) EXCEPT
                    !.to = lastOp.to \cup TouchedIn(State, FIXED_TIMESTEP, keys)]
    /\ clock' = clock + 1

NextBridge == BridgeFrame

SpecBridge == InitBridge /\ [][NextBridge]_vars

\* C11: a flame that is inactive or no longer held by the World has been
\* touched by an ice block (same cell or orthogonally adjacent), and the
\* count of flames is 0 only when every flame has been.
C11_PlayerNoExtinguish ==
  /\ \A f \in Flames(State) :
       (\/ ~ents[f].isActive
        \/ f \notin Placed
        \/ \A i \in DOMAIN objects : objects[i].obj # f)
         => f \in lastOp.to
  /\ countObjectsOfType(State, "flame") = 0 => Flames(State) \subseteq lastOp.to

----------------------------------------------------------------------------
(* Specification SpecPlayer: a level is loaded and the game started; the
   player's moveLeft, moveRight and jump are called in any order, with
   PLAYING frames without keys in between. *)

PlayerMaxOps == 4

PlayerLevels == GameLevels \cup BridgeLevels

InitPlayer ==
  \E lv \in PlayerLevels :
    /\ Holds(startGame(lv.width, lv.height, lv))
    /\ lastOp = Op("start", TRUE)
    /\ clock = 0

PlayerMoveLeft ==
  /\ clock < PlayerMaxOps
  /\ Install(moveLeft(State))
  /\ lastOp' = Op("moveLeft",
                  tryMoveOk(State, ents[player].gridX - 1, ents[player].gridY, -1))
  /\ clock' = clock + 1

PlayerMoveRight ==
  /\ clock < PlayerMaxOps
  /\ Install(moveRight(State))
  /\ lastOp' = Op("moveRight",
                  tryMoveOk(State, ents[player].gridX + 1, ents[player].gridY, 1))
  /\ clock' = clock + 1

PlayerJump ==
  /\ clock < PlayerMaxOps
  /\ Install(jump(State))
  /\ lastOp' = Op("jump", jumpOk(State))
  /\ clock' = clock + 1

PlayerFrame ==
  \E dt \in GameDts :
    /\ clock < PlayerMaxOps
    /\ gameState = "playing"
    /\ Install(gameUpdate(State, dt, NoKeys))
    /\ lastOp' = Op("update", TRUE)
    /\ clock' = clock + 1

\* createIceLeft and createIceRight; the history keeps the cell aimed at.
PlayerCreateIceLeft ==
  /\ clock < PlayerMaxOps
  /\ Install(createIceLeft(State))
  /\ lastOp' = [Op("createIceLeft",
                    tryCreateIceOk(State, ents[player].gridX - 1,
                                   ents[player].gridY))
                  EXCEPT !.from = <<ents[player].gridX - 1, ents[player].gridY>>]
  /\ clock' = clock + 1

PlayerCreateIceRight ==
  /\ clock < PlayerMaxOps
  /\ Install(createIceRight(State))
  /\ lastOp' = [Op("createIceRight",
                    tryCreateIceOk(State, ents[player].gridX + 1,
                                   ents[player].gridY))
                  EXCEPT !.from = <<ents[player].gridX + 1, ents[player].gridY>>]
  /\ clock' = clock + 1

NextPlayer ==
  \/ PlayerMoveLeft
  \/ PlayerMoveRight
  \/ PlayerJump
  \/ PlayerFrame
  \/ PlayerCreateIceLeft
  \/ PlayerCreateIceRight

SpecPlayer == InitPlayer /\ [][NextPlayer]_vars

\* The entities whose cell in the World's grid differs before and after.
Relocated ==
  {o \in DOMAIN ents :
     {c \in DOMAIN grid : grid[c] = o} # {c \in DOMAIN grid : grid'[c] = o}}

\* C12: a call of moveLeft, moveRight or jump relocates at most one entity
\* in the grid; when it returns true exactly one, which is then held by
\* the cell of its coordinates; when it returns false the grid, the index
\* and all coordinates are unchanged.
C12_FaithfulReturn ==
  [][lastOp'.op \in {"moveLeft", "moveRight", "jump"} =>
       /\ Cardinality(Relocated) <= 1
       /\ lastOp'.ret =>
            /\ Cardinality(Relocated) = 1
            /\ \A o \in Relocated :
                 /\ ~isOutOfBounds(State, ents'[o].gridX, ents'[o].gridY)
                 /\ grid'[<<ents'[o].gridX, ents'[o].gridY>>] = o
       /\ ~lastOp'.ret =>
            /\ grid' = grid
            /\ objects' = objects
            /\ \A o \in DOMAIN ents :
                 /\ ents'[o].gridX = ents[o].gridX
                 /\ ents'[o].gridY = ents[o].gridY]_vars

\* C17: createIceLeft (createIceRight) called when an ice block occupies
\* the cell to the player's left (right) removes that ice block from the
\* World: afterwards no cell and no index entry holds it.
C17_IceRemoval ==
  [][(/\ lastOp'.op \in {"createIceLeft", "createIceRight"}
      /\ lastOp'.from \in DOMAIN grid
      /\ grid[lastOp'.from] # 0
      /\ ents[grid[lastOp'.from]].type = "ice_block")
       => /\ grid'[lastOp'.from] # grid[lastOp'.from]
          /\ \A c \in DOMAIN grid' : grid'[c] # grid[lastOp'.from]
          /\ \A i \in DOMAIN objects' :
               objects'[i].obj # grid[lastOp'.from]]_vars

----------------------------------------------------------------------------
(* Claims about whole frames of a loaded level (SpecGame) *)

NonFragileTypes == {"wall", "stone", "pot", "portal", "player"}

\* The objects made from the glyphs of the level, all placed by the load.
LevelObjects == 1 .. Len(scanLevel(level, 0, 0))

\* C13: every wall, stone, pot, portal and player of the loaded level is
\* still active and still held by a grid cell and an index entry of the
\* World; only ice blocks and flames are ever inactive.
C13_NonFragilePersist ==
  \A o \in DOMAIN ents :
    /\ ~ents[o].isActive => ents[o].type \in {"ice_block", "flame"}
    /\ o \in LevelObjects /\ ents[o].type \in NonFragileTypes =>
         /\ ents[o].isActive
         /\ o \in Placed
         /\ \E i \in DOMAIN objects : objects[i].obj = o


----------------------------------------------------------------------------
(* Specification SpecPurge: a World holding one entity of each updating
   class; between two GameWorld.update calls the callers destroy entities
   (GameObject.destroy), start a melt and move entities along their rows *)

PurgeW == 3
PurgeH == 2
PurgeMaxOps == 3

PurgeDts == {TicksPerStep, 2 * TicksPerStep}

\* A block, a flame, a pot that is heating up, a portal and a player that are
\* cooling down, and a stone.
PurgePool(melting) ==
  << [IceBlock(0, 0) EXCEPT !.isMelting = melting,
                            !.meltTimer = IF melting
                                          THEN ICE_MELT_TIME - 2 * TicksPerStep
                                          ELSE 0],
     Flame(1, 0),
     [Pot(2, 0, TRUE) EXCEPT !.isHeating = TRUE,
                             !.heatTimer = POT_HEAT_TIME - 2 * TicksPerStep],
     [Portal(0, 1, <<"1">>) EXCEPT !.cooldown = 2 * TicksPerStep],
     [Player(1, 1) EXCEPT !.jumpCooldown = TicksPerStep,
                          !.iceCreateCooldown = 2 * TicksPerStep] >>

InitPurge ==
  /\ \E melting \in BOOLEAN : Holds(NewWorld(PurgeW, PurgeH, PurgePool(melting)))
  /\ lastOp = NoOp
  /\ clock = 0

\* GameObject.destroy called on an entity that the World holds.
PurgeDestroy ==
  \E o \in Placed :
    /\ clock < PurgeMaxOps
    /\ Install([State EXCEPT !.ents = destroy(@, o)])
    /\ lastOp' = [Op("destroy", TRUE) EXCEPT !.o = o]
    /\ clock' = clock + 1

PurgeMove ==
  \E x \in 0 .. PurgeW - 1, y \in 0 .. PurgeH - 1, tx \in 0 .. PurgeW - 1 :
    /\ clock < PurgeMaxOps
    /\ moveObjectOk(State, x, y, tx, y)
    /\ Install(moveObject(State, x, y, tx, y))
    /\ lastOp' = Op("moveObject", TRUE)
    /\ clock' = clock + 1

\* GameWorld.update(dt); the history keeps dt.
PurgeUpdate ==
  \E dt \in PurgeDts :
    /\ clock < PurgeMaxOps
    /\ Install(worldUpdate(State, dt))
    /\ lastOp' = [Op("update", TRUE) EXCEPT !.o = dt]
    /\ clock' = clock + 1

\* IceBlock.startMelting called on a held block, as the thermal update and
\* the rules pass call it.
PurgeStartMelting ==
  \E o \in Placed :
    /\ clock < PurgeMaxOps
    /\ ents[o].type = "ice_block"
    /\ Install([State EXCEPT !.ents = startMelting(@, o)])
    /\ lastOp' = [Op("startMelting", TRUE) EXCEPT !.o = o]
    /\ clock' = clock + 1

NextPurge == PurgeDestroy \/ PurgeMove \/ PurgeUpdate \/ PurgeStartMelting

SpecPurge == InitPurge /\ [][NextPurge]_vars

\* Entities that the index names.
Indexed == {objects[i].obj : i \in DOMAIN objects}

\* C14: GameWorld.update(dt) calls update(dt) once on every entity that is
\* active and held, and on no other; when it returns no inactive entity is
\* held by a cell or named by the index, and every entity that is still
\* active is held by the cell that held it, under the same index key.
C14_UpdatePurge ==
  [][lastOp'.op = "update" =>
       /\ \A o \in DOMAIN ents :
            ents'[o] = IF o \in Indexed /\ ents[o].isActive
                       THEN objectUpdate(ents[o], lastOp'.o)
                       ELSE ents[o]
       /\ \A c \in DOMAIN grid' : grid'[c] # 0 => ents'[grid'[c]].isActive
       /\ \A i \in DOMAIN objects' : ents'[objects'[i].obj].isActive
       /\ \A c \in DOMAIN grid :
            (grid[c] # 0 /\ ents'[grid[c]].isActive) =>
               /\ grid'[c] = grid[c]
               /\ \E i \in DOMAIN objects' :
                    objects'[i] = [key |-> c, obj |-> grid[c]]]_vars

\* An update has purged the flame that a caller destroyed and the block that
\* melted during the update, and has kept the pot, which became hot.
C14_Witness ==
  /\ lastOp.op = "update"
  /\ ~ents[1].isActive /\ 1 \notin Placed
  /\ ~ents[2].isActive /\ 2 \notin Placed
  /\ ents[3].is_hot /\ 3 \in Placed
  /\ ents[5].iceCreateCooldown = 0 /\ 5 \in Placed


\* The frame that runs the subsystems in the order physics, push drain,
\* thermal update, rules pass, World purge: the entities' own updates come
\* first and the input and the win test last, as in Game.update.
frameAsStated(s, dt, keys) ==
  With([s EXCEPT !.ents = updateEach(@, getAllObjects(s), dt)], LAMBDA s1 :
  With(physicsUpdate(s1, dt), LAMBDA s2 :
  With(processPushRequests(s2), LAMBDA s3 :
  With(updateAllIceBlocks(s3, dt), LAMBDA s4 :
  With(gameRulesUpdate(s4), LAMBDA s5 :
  With(removeDestroyedObjects(s5), LAMBDA s6 :
  With(handlePlayerInput(s6, keys, inputUpdate(keys)), LAMBDA s7 :
    checkWinConditions(s7))))))))

\* C15: a PLAYING frame leaves the state that the subsystems leave when run
\* in the order physics fixed steps, push drain, thermal update, rules pass,
\* purge of the inactive entities.
C15_FrameOrder ==
  [][lastOp'.op = "update" =>
       State' = frameAsStated(State, lastOp'.o, lastOp'.to)]_vars


----------------------------------------------------------------------------
(* Specification SpecLoop: the program from the return of the Game
   constructor in main.  Time is in ticks; the keys held are an input of
   each update *)

LoopMaxFrames == 3

\* Game.updateMenu and Game.updateWinScreen read keys with isKeyJustPressed
\* only (the level keys 1..6 and r are not among the keys of the model).
updateMenu(s, keys, previousKeys) ==
  IF isKeyJustPressed(keys, previousKeys, "space")
  THEN [s EXCEPT !.gstate = "playing"]
  ELSE s

updateWinScreen(s, keys, previousKeys) ==
  IF isKeyJustPressed(keys, previousKeys, "space")
  THEN [s EXCEPT !.gstate = "menu"]
  ELSE s

\* Game.update(currentTime)
update(s, currentTime, keys) ==
  LET dt == Min(currentTime - s.loop.lastTime, MAX_FRAME_STEPS * FIXED_TIMESTEP)
      s1 == [s EXCEPT !.loop.lastTime = currentTime, !.loop.passes = @ + 1]
  IN CASE s1.gstate = "playing" -> gameUpdate(s1, dt, keys)
       [] s1.gstate = "menu" -> updateMenu(s1, keys, inputUpdate(keys))
       [] s1.gstate = "win" -> updateWinScreen(s1, keys, inputUpdate(keys))
       [] OTHER -> s1

\* Game.gameLoop(currentTime): an update, then requestAnimationFrame.
gameLoop(s, currentTime, keys) ==
  IF ~s.loop.isRunning THEN s
  ELSE [update(s, currentTime, keys) EXCEPT !.loop.scheduled = @ + 1]

\* Game.start: lastTime = performance.now(), then gameLoop(lastTime).
start(s, keys) ==
  gameLoop([s EXCEPT !.loop.lastTime = s.loop.now], s.loop.now, keys)

\* Game.initializeGame after its await
initializeGame(s, lv) ==
  LET s1 == loadLevel(s, lv)
  IN [s1 EXCEPT !.player = s1.levelPlayer, !.gstate = "menu"]

\* The constructor has returned: the World is empty, the state is MENU and
\* initializeGame waits for the level.
InitLoop ==
  /\ Holds([Constructed(4, 3, <<>>) EXCEPT !.loop = NewLoop(TRUE)])
  /\ lastOp = NoOp
  /\ clock = 0

\* main: game.start()
MainStart ==
  \E keys \in KeySets :
    /\ loop.mainPending
    /\ Install([start(State, keys) EXCEPT !.loop.mainPending = FALSE])
    /\ lastOp' = Op("start", TRUE)
    /\ clock' = clock

\* The continuation of the constructor's initializeGame().then: it runs once
\* main has returned, before or between animation frames.
InitializeGameDone ==
  \E lv \in GameLevels, keys \in KeySets :
    /\ loop.initPending
    /\ ~loop.mainPending
    /\ loop.due = 0
    /\ Install([start(initializeGame(State, lv), keys)
                  EXCEPT !.loop.initPending = FALSE])
    /\ lastOp' = Op("start", TRUE)
    /\ clock' = clock

\* The browser starts an animation frame: the callbacks registered so far
\* are due, all with the time stamp of the frame.
AnimationFrame ==
  \E dt \in GameDts :
    /\ clock < LoopMaxFrames
    /\ ~loop.mainPending
    /\ loop.due = 0
    /\ loop.scheduled > 0
    /\ Install([State EXCEPT !.loop.now = @ + dt,
                             !.loop.due = State.loop.scheduled,
                             !.loop.scheduled = 0,
                             !.loop.passes = 0])
    /\ lastOp' = Op("frame", TRUE)
    /\ clock' = clock + 1

\* One due callback runs.
GameLoop ==
  \E keys \in KeySets :
    /\ loop.due > 0
    /\ Install(gameLoop([State EXCEPT !.loop.due = @ - 1], loop.now, keys))
    /\ lastOp' = Op("gameLoop", TRUE)
    /\ clock' = clock

\* The callback of the menu action (Tab), between two callbacks.
MenuKey ==
  /\ ~loop.mainPending
  /\ gameState \in {"menu", "playing"}
  /\ Install([State EXCEPT !.gstate = IF @ = "playing" THEN "menu"
                                       ELSE "playing"])
  /\ lastOp' = Op("menu", TRUE)
  /\ clock' = clock

\* The callback of the quit action: Game.quit.
Quit ==
  /\ ~loop.mainPending
  /\ loop.isRunning
  /\ Install([State EXCEPT !.loop.isRunning = FALSE])
  /\ lastOp' = Op("quit", TRUE)
  /\ clock' = clock

NextLoop ==
  MainStart \/ InitializeGameDone \/ AnimationFrame \/ GameLoop \/ MenuKey \/ Quit

SpecLoop == InitLoop /\ [][NextLoop]_vars

\* C16: at most one game loop is ever scheduled and Game.update runs at
\* most once in an animation frame.
C16_OneLoop ==
  /\ loop.scheduled + loop.due <= 1
  /\ loop.passes <= 1


----------------------------------------------------------------------------
(* Claims about the rules pass of a frame (SpecGame) *)

\* The World of s references no inactive entity.
NoInactiveHeld(s) ==
  /\ \A c \in DOMAIN s.grid : s.grid[c] # 0 => s.ents[s.grid[c]].isActive
  /\ \A i \in DOMAIN s.objects : s.ents[s.objects[i].obj].isActive

\* C18: when the GameRulesSystem.update of a frame returns, no grid cell and
\* no index entry of the World references an inactive entity.
C18_NoInactiveAfterRules ==
  [][lastOp'.op = "update" =>
       NoInactiveHeld(updateSubsystems(State, lastOp'.o))]_vars


\* The rules pass in which an entity that is inactive is skipped: by the
\* pair loop when it is one of the pair, by the two sweeps when it is the
\* hot or cold object or the block or flame acted on.
BothActive(es, a, b) == es[a].isActive /\ es[b].isActive

RECURSIVE interactLive(_, _, _)
interactLive(es, os, ps) ==
  IF ps = <<>> THEN es
  ELSE IF Len(ps) = 1
       THEN IF BothActive(es, os[ps[1][1]], os[ps[1][2]])
            THEN interactPair(es, os, ps[1])
            ELSE es
  ELSE With(interactLive(es, os, FirstHalf(ps)),
            LAMBDA es1 : interactLive(es1, os, SecondHalf(ps)))

RECURSIVE heatLive(_, _)
heatLive(es, ps) ==
  IF ps = <<>> THEN es
  ELSE IF Len(ps) = 1
       THEN IF BothActive(es, ps[1][1], ps[1][2]) THEN heatPair(es, ps[1])
            ELSE es
  ELSE With(heatLive(es, FirstHalf(ps)),
            LAMBDA es1 : heatLive(es1, SecondHalf(ps)))

RECURSIVE coolLive(_, _)
coolLive(es, ps) ==
  IF ps = <<>> THEN es
  ELSE IF Len(ps) = 1
       THEN IF BothActive(es, ps[1][1], ps[1][2]) THEN coolPair(es, ps[1])
            ELSE es
  ELSE With(coolLive(es, FirstHalf(ps)),
            LAMBDA es1 : coolLive(es1, SecondHalf(ps)))

rulesLive(s) ==
  LET os == getAllObjects(s)
      hot(u) == SelectSeq(os, LAMBDA o : \/ u.ents[o].type = "flame"
                                         \/ isHotPot(u.ents[o]))
      cold(u) == SelectSeq(os, LAMBDA o : \/ u.ents[o].type = "ice_block"
                                          \/ /\ u.ents[o].type = "pot"
                                             /\ u.ents[o].is_cold)
  IN With([s EXCEPT !.ents = interactLive(@, os, PairsFrom(1, 2, Len(os)))],
          LAMBDA s1 :
     With([s1 EXCEPT !.ents =
             heatLive(@, Product(getObjectsOfType(s1, "ice_block"),
                                 hot(s1), hot(s1)))],
          LAMBDA s2 :
     With([s2 EXCEPT !.ents =
             coolLive(@, Product(getObjectsOfType(s2, "flame"),
                                 cold(s2), cold(s2)))],
          LAMBDA s3 : cleanupDestroyedObjects(s3))))

\* C19: in the rules pass of a frame an entity that an interaction has made
\* inactive takes part in no later pair interaction and in no sweep effect:
\* the pass leaves what the pass that skips inactive entities leaves.
C19_NoRematch ==
  [][lastOp'.op = "update" =>
       gameRulesUpdate(updateBeforeRules(State, lastOp'.o))
         = rulesLive(updateBeforeRules(State, lastOp'.o))]_vars


----------------------------------------------------------------------------
(* Claims about IceBlock.startMelting (SpecPurge) *)

\* C20: startMelting called on a block that is already melting leaves its
\* melt timer and its melting progress unchanged.
C20_StartMeltingIdempotent ==
  [][(lastOp'.op = "startMelting" /\ ents[lastOp'.o].isMelting) =>
       /\ ents'[lastOp'.o].meltTimer = ents[lastOp'.o].meltTimer
       /\ getMeltingProgress(ents'[lastOp'.o])
            = getMeltingProgress(ents[lastOp'.o])]_vars


----------------------------------------------------------------------------
(* Claims about the entity updates of a frame (SpecGame) *)

\* The entities that the World holds before and after the step and that are
\* active at both ends.
HeldThrough ==
  {o \in Indexed : /\ ents[o].isActive
                   /\ ents'[o].isActive
                   /\ \E i \in DOMAIN objects' : objects'[i].obj = o}

\* C21: in a PLAYING frame every active entity of the World is updated
\* once: the timer of a block that is melting, the timer of a pot that is
\* heating and the cooldown of a portal advance by the frame's dt, unless a
\* trigger of the same frame has set them anew (melt and heat timers to 0,
\* the cooldown to PORTAL_COOLDOWN).
C21_UpdatedOnce ==
  [][lastOp'.op = "update" =>
       \A o \in HeldThrough :
         /\ (ents[o].type = "ice_block" /\ ents[o].isMelting) =>
              ents'[o].meltTimer \in {ents[o].meltTimer + lastOp'.o, 0}
         /\ (ents[o].type = "pot" /\ ents[o].isHeating /\ ents'[o].isHeating) =>
              ents'[o].heatTimer \in {ents[o].heatTimer + lastOp'.o, 0}
         /\ (ents[o].type = "portal" /\ ents[o].cooldown > 0) =>
              ents'[o].cooldown \in {ents[o].cooldown - lastOp'.o,
                                     PORTAL_COOLDOWN}]_vars


\* C22: at the end of a frame the index of the ice system holds exactly the
\* active ice blocks that the World holds, each under the key of its
\* coordinates, and an inactive block is in neither the World nor the index.
C22_IceIndex ==
  lastOp.op = "update" =>
    /\ \A o \in Placed :
         (ents[o].type = "ice_block" /\ ents[o].isActive) =>
           \E i \in DOMAIN activeIceBlocks :
             activeIceBlocks[i] = [key |-> <<ents[o].gridX, ents[o].gridY>>,
                                   obj |-> o]
    /\ \A i \in DOMAIN activeIceBlocks :
         /\ ents[activeIceBlocks[i].obj].isActive
         /\ activeIceBlocks[i].obj \in Placed
         /\ activeIceBlocks[i].key = <<ents[activeIceBlocks[i].obj].gridX,
                                       ents[activeIceBlocks[i].obj].gridY>>
    /\ \A o \in DOMAIN ents :
         (ents[o].type = "ice_block" /\ ~ents[o].isActive) => o \notin Placed


----------------------------------------------------------------------------
(* Specification SpecStep: PhysicsEngine.update on a World of two entities
   in different cells.  With stale set, the coordinates of the first are
   those of the second, its horizontal neighbour, while the World still
   holds it in its own cell: what Player.tryMove and Player.tryPush leave
   after a move that GameWorld.moveObject refused *)

StepW == 2
StepH == 4
StepMaxCalls == 2

\* One fixed step, and more than SPIRAL_STEPS fixed steps.
StepDts == {FIXED_TIMESTEP, SPIRAL_STEPS * FIXED_TIMESTEP + 1}

StepKinds == {"player", "ice_block", "stone", "pot", "hot_pot", "flame", "1", "wall"}

InitStep ==
  \E c1 \in Cells(StepW, StepH), c2 \in Cells(StepW, StepH),
     k1 \in StepKinds, k2 \in StepKinds, stale \in BOOLEAN :
    /\ c1 # c2
    /\ stale => (c1[2] = c2[2] /\ k1 \in {"player", "ice_block", "stone", "pot", "hot_pot"})
    /\ LET s0 == NewWorld(StepW, StepH, <<NewObject(k1, c1[1], c1[2]),
                                         NewObject(k2, c2[1], c2[2])>>)
       IN Holds(IF stale THEN [s0 EXCEPT !.ents = setPosition(@, 1, c2[1], c2[2])]
                ELSE s0)
    /\ lastOp = Op("start", TRUE)
    /\ clock = 0

\* PhysicsEngine.update(dt); the history keeps dt.
StepUpdate ==
  \E dt \in StepDts :
    /\ clock < StepMaxCalls
    /\ Install(physicsUpdate(State, dt))
    /\ lastOp' = [Op("update", TRUE) EXCEPT !.o = dt]
    /\ clock' = clock + 1

NextStep == StepUpdate

SpecStep == InitStep /\ [][NextStep]_vars

\* The step is an update call that runs exactly one fixed step.
OneFixedStep ==
  /\ lastOp'.op = "update"
  /\ (accumulatedTime + lastOp'.o) \div FIXED_TIMESTEP = 1

\* The entity that cell c holds cannot support weight.
NonSupporting(c) == grid[c] # 0 /\ ~canSupportWeight(ents[grid[c]])

\* C23: in a fixed step a gravity-affected entity, held by the cell of its
\* coordinates, whose cell directly below is a cell of the World and is
\* empty or holds an occupant that cannot support weight is one cell lower
\* afterwards and held by that cell.
C23_FallThrough ==
  [][OneFixedStep =>
       \A o \in Indexed :
         LET x == ents[o].gridX
             y == ents[o].gridY
         IN (/\ isAffectedByGravity(ents[o])
             /\ <<x, y>> \in DOMAIN grid
             /\ grid[<<x, y>>] = o
             /\ y - 1 >= 0
             /\ (grid[<<x, y - 1>>] = 0 \/ NonSupporting(<<x, y - 1>>)))
            => /\ ents'[o].gridX = x
               /\ ents'[o].gridY = y - 1
               /\ grid'[<<x, y - 1>>] = o]_vars


\* Entity o is held by the cell of its coordinates.
HeldAtOwn(o) ==
  /\ <<ents[o].gridX, ents[o].gridY>> \in DOMAIN grid
  /\ grid[<<ents[o].gridX, ents[o].gridY>>] = o

\* The heap after o, one cell lower, and b have had onCollision called once
\* in each direction.
AfterHooks(o, b) ==
  LET es0 == setPosition(ents, o, ents[o].gridX, ents[o].gridY - 1)
  IN onCollision(onCollision(es0, o, b), b, o)

C25_SpiralGuard ==
  [][(/\ lastOp'.op = "update"
      /\ accumulatedTime + lastOp'.o > SPIRAL_STEPS * FIXED_TIMESTEP)
       => /\ accumulatedTime' = 0
          /\ grid' = grid
          /\ objects' = objects
          /\ ents' = ents]_vars


\* The entities as the gravity pass of a fixed step leaves them, which is
\* what resolveCollisions compares.
Fallen == gravityEach(State, getAllObjects(State)).ents

----------------------------------------------------------------------------
(* Claims about the PushSystem (SpecPush) *)

\* The cell a queued request aims at, from the object's current coordinates.
TargetOf(request) ==
  <<IF request.direction = "left"
    THEN ents[request.object].gridX - request.distance
    ELSE ents[request.object].gridX + request.distance,
    ents[request.object].gridY>>

\* The five conditions of a push, for a queued request.
FiveConditions(request) ==
  LET o == request.object
      t == TargetOf(request)
  IN /\ t \in Cells(width, height)
     /\ grid[t] = 0 \/ ~isSolid(ents[grid[t]])
     /\ \/ ents[o].gridY = 0
        \/ /\ grid[<<ents[o].gridX, ents[o].gridY - 1>>] # 0
           /\ canSupportWeight(ents[grid[<<ents[o].gridX, ents[o].gridY - 1>>]])
     /\ getWeight(ents[o]) <= MAX_PUSH_WEIGHT
     /\ ~ents[o].sliding

\* C27: a call of processPushRequests with one queued request relocates
\* the requested entity to the cell its captured distance away in the
\* requested direction and marks it just_pushed when the five conditions
\* hold, and leaves the World as it was when one of them fails.
C27_PushValidation ==
  [][(lastOp'.op = "processPushRequests" /\ Len(pushRequests) = 1) =>
       LET request == pushRequests[1]
           o == request.object
           t == TargetOf(request)
       IN IF FiveConditions(request)
          THEN /\ ents'[o].gridX = t[1] /\ ents'[o].gridY = t[2]
               /\ grid'[t] = o
               /\ ents'[o].just_pushed
          ELSE grid' = grid /\ objects' = objects /\ ents' = ents]_vars

\* The four cells orthogonally adjacent to cell c: left, right, below, above.
AdjacentCells(c) ==
  {<<c[1] - 1, c[2]>>, <<c[1] + 1, c[2]>>, <<c[1], c[2] - 1>>, <<c[1], c[2] + 1>>}
    \cap Cells(width, height)

\* C28: after a call of processPushRequests with one queued request that
\* relocated its entity, every other pushable entity in one of the four
\* cells adjacent to the entity's new position has a queued request in the
\* direction of that push and with half its force.
C28_ChainPush ==
  [][(/\ lastOp'.op = "processPushRequests"
      /\ Len(pushRequests) = 1
      /\ ents'[pushRequests[1].object].just_pushed
      /\ ~ents[pushRequests[1].object].just_pushed) =>
       LET request == pushRequests[1]
           o == request.object
       IN \A c \in AdjacentCells(<<ents'[o].gridX, ents'[o].gridY>>) :
            (grid'[c] # 0 /\ grid'[c] # o /\ isPushable(ents'[grid'[c]])) =>
              \E i \in DOMAIN pushRequests' :
                /\ pushRequests'[i].object = grid'[c]
                /\ pushRequests'[i].direction = request.direction
                /\ pushRequests'[i].force * 2 = request.force]_vars

\* The requests taken from the queue one after another, each processed on
\* its own with nothing else queued; left collects what each one queued.
RECURSIVE oneAtATime(_, _, _)
oneAtATime(s, requests, left) ==
  IF requests = <<>> THEN [s EXCEPT !.push = left]
  ELSE With(processPushRequest([s EXCEPT !.push = <<>>], Head(requests)),
            LAMBDA s1 : oneAtATime(s1, Tail(requests), left \o s1.push))

\* The entities whose coordinates a step changes.
Displaced ==
  {o \in DOMAIN ents : ents'[o].gridX # ents[o].gridX
                       \/ ents'[o].gridY # ents[o].gridY}

\* C29: a call of processPushRequests leaves the World and the queue as
\* processing the requests queued at its start one by one, in queue order,
\* leaves them, the queue holding the requests those created and nothing
\* else; it relocates only entities that had a request queued at its start,
\* so a chained request is never processed by the call that created it; and
\* requestPush on an entity that is not pushable leaves the queue as it was.
C29_BatchDrain ==
  [][/\ lastOp'.op = "processPushRequests" =>
          /\ State' = oneAtATime(State, pushRequests, <<>>)
          /\ \A i \in DOMAIN pushRequests' :
               pushRequests'[i].force = CHAIN_FORCE
          /\ Displaced \subseteq
               {pushRequests[i].object : i \in DOMAIN pushRequests}
     /\ (lastOp'.op = "requestPush" /\ ~lastOp'.ret) =>
          pushRequests' = pushRequests]_vars

\* A call that processed a request has left a chained request in the queue.
C29_Witness ==
  /\ lastOp.op = "processPushRequests"
  /\ pushRequests # <<>>
  /\ \E o \in DOMAIN ents : ents[o].just_pushed

----------------------------------------------------------------------------
(* Specification SpecRules: an ice block and a flame anywhere in a small
   World, alone or with one more object, under passes of the
   GameRulesSystem.  A portal is without a pair, as loadLevel leaves it.
   The block's coordinates may be those of the cell next to its own that
   holds the flame, as a push towards the flame leaves them.  The World
   enumerates the objects in the order they were added; the player, which
   no rule looks at, is left out. *)

RulesW == 3
RulesH == 2
RulesMaxPasses == 2

CompanionKinds == {"stone", "pot", "hot_pot", "wall", "ice_block", "flame", "1"}

\* The objects of a World in the order they are added: the block and the
\* flame, before or after the companion.
RulesObjects ==
  {<<IceBlock(c1[1], c1[2]), Flame(c2[1], c2[2])>> :
     c1, c2 \in Cells(RulesW, RulesH)}
  \cup {IF first
        THEN <<NewObject(k, c3[1], c3[2]), IceBlock(c1[1], c1[2]),
               Flame(c2[1], c2[2])>>
        ELSE <<IceBlock(c1[1], c1[2]), Flame(c2[1], c2[2]),
               NewObject(k, c3[1], c3[2])>> :
          c1, c2, c3 \in Cells(RulesW, RulesH), k \in CompanionKinds,
          first \in BOOLEAN}

\* No two objects of es are in the same cell.
DistinctCells(es) ==
  \A i, j \in DOMAIN es : i # j => ~areColliding(es[i], es[j])

\* The first ice block and the first flame of es.
FirstOf(es, type) == CHOOSE i \in DOMAIN es :
  es[i].type = type /\ \A j \in 1 .. i - 1 : es[j].type # type

\* The World after a push of its first ice block towards its first flame in
\* the next cell of the same row: only the block's coordinates change.
PushedAtFlame(s) ==
  LET b == FirstOf(s.ents, "ice_block")
      f == FirstOf(s.ents, "flame")
  IN [s EXCEPT !.ents = setPosition(@, b, @[f].gridX, @[f].gridY)]

InitRules ==
  \E es \in RulesObjects, stale \in BOOLEAN :
    /\ DistinctCells(es)
    /\ stale =>
         LET b == es[FirstOf(es, "ice_block")]
             f == es[FirstOf(es, "flame")]
         IN Abs(b.gridX - f.gridX) = getPushDistance(b) /\ b.gridY = f.gridY
    /\ Holds(IF stale THEN PushedAtFlame(NewWorld(RulesW, RulesH, es))
             ELSE NewWorld(RulesW, RulesH, es))
    /\ lastOp = Op("start", TRUE)
    /\ clock = 0

RulesUpdate ==
  /\ clock < RulesMaxPasses
  /\ Install(gameRulesUpdate(State))
  /\ lastOp' = Op("gameRulesUpdate", TRUE)
  /\ clock' = clock + 1

NextRules == RulesUpdate

SpecRules == InitRules /\ [][NextRules]_vars

\* A hot pot of the World touches entity b.
HotPotTouches(b) ==
  \E p \in Indexed : isHotPot(ents[p]) /\ areInteracting(ents[p], ents[b])

SweepEnts == checkObjectInteractions(State).ents

HeatSource(e) == e.type = "flame" \/ isHotPot(e)

\* The larger of the two coordinate offsets.
Chebyshev(e1, e2) ==
  IF Abs(e1.gridX - e2.gridX) > Abs(e1.gridY - e2.gridY)
  THEN Abs(e1.gridX - e2.gridX)
  ELSE Abs(e1.gridY - e2.gridY)

\* Block b is within HEAT_RADIUS of a heat source of the World, by the
\* straight-line distance and by the larger offset.
InHeatRange(b) ==
  \E h \in Indexed :
    /\ HeatSource(SweepEnts[h])
    /\ DistanceSquared(SweepEnts[b], SweepEnts[h]) <= HEAT_RADIUS * HEAT_RADIUS

InHeatSquare(b) ==
  \E h \in Indexed :
    /\ HeatSource(SweepEnts[h])
    /\ Chebyshev(SweepEnts[b], SweepEnts[h]) <= HEAT_RADIUS

\* The ice blocks the World holds.
IceBlocks == {b \in Indexed : ents[b].type = "ice_block"}

\* What a rules pass does to block b when it is in range, and when not.
Heated(b, inRange) ==
  IF inRange
  THEN ents'[b].isMelting /\ ents'[b].meltTimer = 0
  ELSE /\ applyHeatEffects(checkObjectInteractions(State)).ents[b] = SweepEnts[b]
       /\ ents'[b].isMelting = SweepEnts[b].isMelting

----------------------------------------------------------------------------
(* Specification SpecPotLife: a pot in a one-row World with one or two of
   a flame, an ice block and a second pot, under World updates, rules
   passes and the collision resolution of the PhysicsEngine for a pair. *)

PotLifeW == 3
PotLifeMaxCollisions == 1

PotLifeKinds == {"flame", "ice_block", "pot", "hot_pot"}

\* The time steps of a World update: a run of the longest frames, and half
\* the heating time.
PotLifeFrames == 4
PotLifeDts == {PotLifeFrames * MAX_FRAME_STEPS * FIXED_TIMESTEP,
               POT_HEAT_TIME \div 2}

PotLifeObjects ==
  {<<NewObject(k1, c1[1], c1[2]), NewObject(k2, c2[1], c2[2])>> :
     c1, c2 \in Cells(PotLifeW, 1), k1 \in {"pot", "hot_pot"},
     k2 \in PotLifeKinds}
  \cup {<<NewObject(k1, c1[1], c1[2]), NewObject(k2, c2[1], c2[2]),
          NewObject(k3, c3[1], c3[2])>> :
          c1, c2, c3 \in Cells(PotLifeW, 1), k1 \in {"pot", "hot_pot"},
          k2 \in PotLifeKinds, k3 \in PotLifeKinds}

InitPotLife ==
  \E es \in PotLifeObjects :
    /\ DistinctCells(es)
    /\ Holds(NewWorld(PotLifeW, 1, es))
    /\ lastOp = Op("start", TRUE)
    /\ clock = 0

PotLifeWorldUpdate ==
  \E dt \in PotLifeDts :
    /\ Install(worldUpdate(State, dt))
    /\ lastOp' = [Op("update", TRUE) EXCEPT !.o = dt]
    /\ UNCHANGED clock

PotLifeRulesUpdate ==
  /\ Install(gameRulesUpdate(State))
  /\ lastOp' = Op("gameRulesUpdate", TRUE)
  /\ UNCHANGED clock

\* resolveCollision for a pair of the World's entities; lastOp.o is the
\* first and lastOp.from the second, clock counts the collisions.
PotLifeCollision ==
  \E a \in Indexed, b \in Indexed :
    /\ clock < PotLifeMaxCollisions
    /\ a # b
    /\ Install([State EXCEPT !.ents = resolveCollision(@, a, b)])
    /\ lastOp' = [Op("resolveCollision", TRUE) EXCEPT !.o = a, !.from = <<b>>]
    /\ clock' = clock + 1

NextPotLife == PotLifeWorldUpdate \/ PotLifeRulesUpdate \/ PotLifeCollision

SpecPotLife == InitPotLife /\ [][NextPotLife]_vars

Pots == {p \in DOMAIN ents : ents[p].type = "pot"}

\* The state of a pot: hot, heating, or cold.
PotState(e) ==
  IF e.is_hot THEN "Hot" ELSE IF e.isHeating THEN "Heating" ELSE "Cold"

\* The entities that a step can bring into contact with pot p: those the
\* rules count as interacting, or the other entity of the resolved pair.
Touching(p) ==
  IF lastOp'.op = "resolveCollision"
  THEN {lastOp'.o, lastOp'.from[1]} \ {p}
  ELSE {o \in Indexed \ {p} : areInteracting(ents[o], ents[p])}

\* Pot p has taken heat: from a flame that is destroyed, or from a hot pot
\* that gave its heat away.
TookHeat(p) ==
  \E o \in Touching(p) :
    \/ ents[o].type = "flame" /\ ~ents'[o].isActive
    \/ ents[o].type = "pot" /\ ents[o].is_hot /\ ~ents'[o].is_hot

\* Pot p has lost its heat: to an ice block that is destroyed, or to a pot
\* that is at the start of a heating afterwards.
LostHeat(p) ==
  \E o \in Touching(p) :
    \/ ents[o].type = "ice_block" /\ ~ents'[o].isActive
    \/ ents[o].type = "pot" /\ ents'[o].isHeating /\ ents'[o].heatTimer = 0

----------------------------------------------------------------------------
(* Claims about level loads and the game loop (SpecLoop) *)

\* C33: while the level load that initializeGame requested has not yet
\* cleared the World and placed the level's entities, no pass of the game
\* loop runs the PLAYING update (with its win check) on the World.
C33_NoStepWhileLoading ==
  [][(lastOp'.op = "gameLoop" /\ loop.isRunning /\ gameState = "playing")
       => ~loop.initPending]_vars

----------------------------------------------------------------------------
(* Specification SpecReload: PLAYING frames of a loaded level and the
   restart action. *)

ReloadMaxOps == 3

\* Game.resetLevel with the continuation of the load it starts.  restartLevel
\* is not awaited and suspends at its first await, before the World is
\* touched, so the Game reads getPlayer() first; the level's data is cached
\* and the load runs to its end before any other callback.
resetLevel(s) == loadLevel([s EXCEPT !.player = s.levelPlayer], s.level)

InitReload ==
  \E lv \in GameLevels :
    /\ Holds(startGame(lv.width, lv.height, lv))
    /\ lastOp = Op("start", TRUE)
    /\ clock = 0

ReloadFrame ==
  \E dt \in GameDts, keys \in KeySets :
    /\ clock < ReloadMaxOps
    /\ gameState = "playing"
    /\ Install(gameUpdate(State, dt, keys))
    /\ lastOp' = [Op("update", TRUE) EXCEPT !.o = dt, !.to = keys]
    /\ clock' = clock + 1

\* The callback of the restart action.
ResetLevel ==
  /\ clock < ReloadMaxOps
  /\ gameState = "playing"
  /\ Install(resetLevel(State))
  /\ lastOp' = Op("resetLevel", TRUE)
  /\ clock' = clock + 1

NextReload == ReloadFrame \/ ResetLevel

SpecReload == InitReload /\ [][NextReload]_vars

\* C34: once a restart has reloaded the level, the Player object the Game
\* holds is the Player entity that the World holds.
C34_PlayerAfterReload ==
  lastOp.op = "resetLevel" =>
    /\ player \in Placed
    /\ ents[player].type = "player"
    /\ player = levelPlayer

----------------------------------------------------------------------------
(* Claims about removals in a frame (SpecGame) *)

\* C35: every entity that a frame takes out of a cell of the World or out
\* of its index is inactive when the frame ends: no active entity is
\* removed.
C35_NoCollateralRemoval ==
  [][lastOp'.op = "update" =>
       \A o \in (Placed \ Placed') \cup (Indexed \ Indexed') :
         ~ents'[o].isActive]_vars

----------------------------------------------------------------------------
(* Specification SpecShuttle: a pair of portals made by createPortalPair
   (objects 1 and 2) and one more object (object 3) on the bottom row of
   the World that holds them, under rules passes and World updates.
   Nothing but a portal moves object 3; clock counts its teleports. *)

MaxShuttles == 2

InitShuttle ==
  \E cA, cB, cE \in Cells(PortalW, 1), kind \in TravellerKinds :
    /\ cA # cB /\ cE \notin {cA, cB}
    /\ Holds(NewWorld(PortalW, 1,
         createPortalPair(<<>>, cA[1], cA[2], cB[1], cB[2], <<"1">>)
           \o <<NewObject(kind, cE[1], cE[2])>>))
    /\ lastOp = Op("start", TRUE)
    /\ clock = 0

ShuttleRulesUpdate ==
  /\ clock < MaxShuttles
  /\ Install(gameRulesUpdate(State))
  /\ lastOp' = Op("gameRulesUpdate", TRUE)
  /\ clock' = IF ents'[3].gridX # ents[3].gridX THEN clock + 1 ELSE clock

ShuttleWorldUpdate ==
  \E dt \in PortalDts :
    /\ \E p \in {1, 2} : ents[p].cooldown > 0
    /\ Install(worldUpdate(State, dt))
    /\ lastOp' = Op("update", TRUE)
    /\ UNCHANGED clock

NextShuttle == ShuttleRulesUpdate \/ ShuttleWorldUpdate

SpecShuttle == InitShuttle /\ [][NextShuttle]_vars

\* C36: an entity that a portal has teleported, and that nothing else
\* moves, is not teleported again.
C36_StaysAtDestination == clock <= 1

----------------------------------------------------------------------------
(* Claims about the heat of two pots (SpecPots) *)

HotOrHeating(e) == e.is_hot \/ e.isHeating

\* Exactly one of the two pots of es is hot or heating.
OneCarriesHeat(es) == HotOrHeating(es[1]) # HotOrHeating(es[2])

----------------------------------------------------------------------------
(* Specification SpecChain: up to three pushable objects in one row, each
   with a push distance of its own, and one or two queued push requests;
   processPushRequests is called again and again and nothing else calls
   requestPush.  The timer callbacks of a call have run before the next
   call.  clock counts the calls, up to ChainCalls. *)

ChainW == 4
MaxDistance == 2
ChainCalls == 3

\* An object of the row: its kind, column and push_distance property.
ChainObject(k, x, d) == [NewObject(k, x, 0) EXCEPT !.push_distance = d]

\* A pot and an ice block, alone or with a stone.
ChainObjects ==
  {<<ChainObject("pot", x1, d1), ChainObject("ice_block", x2, d2)>> :
     x1 \in 0 .. ChainW - 1, x2 \in 0 .. ChainW - 1,
     d1 \in 1 .. MaxDistance, d2 \in 1 .. MaxDistance}
  \cup {<<ChainObject("pot", x1, d1), ChainObject("ice_block", x2, d2),
          ChainObject("stone", x3, d3)>> :
          x1 \in 0 .. ChainW - 1, x2 \in 0 .. ChainW - 1,
          x3 \in 0 .. ChainW - 1,
          d1 \in 1 .. MaxDistance, d2 \in 1 .. MaxDistance,
          d3 \in 1 .. MaxDistance}

RECURSIVE runTimers(_)
runTimers(s) == IF s.timers = <<>> THEN s ELSE runTimers(timerCallback(s))

InitChain ==
  \E es \in ChainObjects, dir1, dir2 \in {"left", "right"},
     o2 \in 0 .. 3 :
    /\ DistinctCells(es)
    /\ o2 <= Len(es)
    /\ LET s1 == requestPush(NewWorld(ChainW, 1, es), 1, dir1, DEFAULT_FORCE)
       IN Holds(IF o2 = 0 THEN s1
                ELSE requestPush(s1, o2, dir2, DEFAULT_FORCE))
    /\ lastOp = Op("start", TRUE)
    /\ clock = 0

ChainProcess ==
  /\ pushRequests # <<>>
  /\ Install(runTimers(processPushRequests(State)))
  /\ lastOp' = Op("processPushRequests", TRUE)
  /\ clock' = Min(clock + 1, ChainCalls)

NextChain == ChainProcess

SpecChain == InitChain /\ [][NextChain]_vars /\ WF_vars(ChainProcess)

\* C38: the calls of processPushRequests eventually leave the queue empty.
C38_ChainsTerminate == <>(pushRequests = <<>>)

----------------------------------------------------------------------------
(* Claims about the enumeration order of a fixed step (SpecStep) *)

\* C39: an update call that runs one fixed step leaves the same entities in
\* the same cells as the same call on the same World enumerated the other
\* way round.
C39_OrderIndependent ==
  [][OneFixedStep =>
       /\ physicsUpdate(OtherOrder(State), lastOp'.o).ents = ents'
       /\ physicsUpdate(OtherOrder(State), lastOp'.o).grid = grid']_vars

====
